---------------------------- MODULE Spec2Model ----------------------------
(***************************************************************************)
(* Scam Decision Engine of radheshpai87/YSCAM: the risk-signal rule engine *)
(* (detect_message.has_high_risk_signals), the classifier wrapper          *)
(* (detect_message.get_prediction), the fusion/override policy of the      *)
(* three entry points (api.detect_scam, file_api.upload_and_detect,        *)
(* detect_message.main) and the start-up of the WSGI process (wsgi.py).    *)
(*                                                                         *)
(* Texts are TLA+ strings; a character is a string of length 1.            *)
(* Probabilities and confidences are integers in per-mille (750 = 0.75).   *)
(***************************************************************************)
EXTENDS Integers, Sequences, FiniteSets, TLC

VARIABLES
    program,          \* which program this process runs: "wsgi", "cli", "server", or one
                      \* of the studies "rules", "text", "words", "ocr", "logistic"
    pc,               \* position of the process
    bundle,           \* models/logistic_regression_model.pkl on disk
    api_model,        \* api.model        (api.py:33)
    api_vectorizer,   \* api.vectorizer   (api.py:34)
    wsgi_model,       \* the name "model" bound in wsgi.py by its from-import (wsgi.py:32)
    wsgi_vectorizer,  \* the name "vectorizer" bound in wsgi.py (wsgi.py:32)
    success,          \* result of initialize_models() (wsgi.py:36)
    file_model,       \* file_api.model      (file_api.py:23)
    file_vectorizer,  \* file_api.vectorizer (file_api.py:24)
    cli_model,        \* local "model" of detect_message.main
    cli_vectorizer,   \* local "vectorizer" of detect_message.main
    loads,            \* number of load_model calls made by this process
    req,              \* the request handled last
    clf,              \* what get_prediction returned for it, before the override
    resp,             \* the response (or terminal output) produced for it
    pieces,           \* rule-engine study: the pieces of the message being composed
    scan,             \* rule-engine study: what has_high_risk_signals returned for it
    resources,        \* the NLTK resources this process finds (punkt, stopwords, wordnet)
    norm,             \* normalizer study: what preprocess_text returned for its input
    expansion,        \* normalizer study: the text after the contraction table (line 149)
    threads,          \* threaded server: the requests in flight, each with its locals
    tmp,              \* threaded server: the temp_upload_<pid>.<ext> files in the working directory
    ocr,              \* lightweight_ocr: the cache directory, OCR_METRICS, the clock, the last call
    lm                \* logistic_model: a LogisticModel instance, its files, its last call

vars == <<program, pc, bundle, api_model, api_vectorizer, wsgi_model,
          wsgi_vectorizer, success, file_model, file_vectorizer, cli_model,
          cli_vectorizer, loads, req, clf, resp, pieces, scan, resources, norm,
          expansion, threads, tmp, ocr, lm>>

---------------------------------------------------------------------------
(* Bounds *)

MaxPieces == 3     \* a composed message has at most this many pieces
MaxLoads == 3      \* load_model is called at most this many times per process
MaxWords == 2      \* a text given to the normalizer has at most this many pieces
MaxParts == 3      \* a text of contractions has at most this many parts
MaxCalls == 3      \* extract_text_from_image is called at most this many times
MaxClock == 3      \* the clock of the OCR cache runs for at most this many days
MaxMethodCalls == 4  \* a LogisticModel instance receives at most this many method calls

---------------------------------------------------------------------------
(* Strings *)

Chr(s, i) == SubSeq(s, i, i)

UpperAlpha == "ABCDEFGHIJKLMNOPQRSTUVWXYZ"
LowerAlpha == "abcdefghijklmnopqrstuvwxyz"

UpperLetters == { Chr(UpperAlpha, i) : i \in 1..26 }

LowerChar(c) ==
    IF c \in UpperLetters
    THEN Chr(LowerAlpha, CHOOSE i \in 1..26 : Chr(UpperAlpha, i) = c)
    ELSE c

\* the value of an expression, named once: The({ f(x) : x \in {e} }) is f(e)
The(S) == CHOOSE x \in S : TRUE

RECURSIVE MapChars(_, _)
\* the concatenation of Op(c) for the characters c of s, by halves
MapChars(Op(_), s) ==
    IF Len(s) = 0 THEN ""
    ELSE IF Len(s) = 1 THEN Op(s)
    ELSE MapChars(Op, SubSeq(s, 1, Len(s) \div 2))
         \o MapChars(Op, SubSeq(s, Len(s) \div 2 + 1, Len(s)))

\* str.lower()
Lower(s) == MapChars(LowerChar, s)

\* Python's  w in s  for strings
Contains(s, w) ==
    \E i \in 1..(Len(s) - Len(w) + 1) : SubSeq(s, i, i + Len(w) - 1) = w

\* any(term in s for term in terms)
ContainsAny(s, terms) == \E k \in DOMAIN terms : Contains(s, terms[k])

---------------------------------------------------------------------------
(* Regular expressions, as far as the six risk patterns use them.          *)
(* A pattern is a sequence of nodes; re.search succeeds iff some start     *)
(* position has some way to match the whole sequence.                      *)

Lit(w) == [t |-> "lit", w |-> w]                   \* literal text
Alt(as) == [t |-> "alt", alts |-> as]              \* ( a | b | ... ), each a sequence
Dot(lo, hi) == [t |-> "dot", lo |-> lo, hi |-> hi] \* .{lo,hi}
Rep(cls, lo) == [t |-> "rep", cls |-> cls, lo |-> lo]  \* cls{lo,}
RepN(cls, lo, hi) == [t |-> "repn", cls |-> cls, lo |-> lo, hi |-> hi]  \* cls{lo,hi}
Bnd == [t |-> "bnd"]                               \* \b

\* TLC keeps one byte of each character of the strings of a state it stores,
\* so the three characters outside ASCII that the messages of this study use
\* are written with ASCII characters that the messages do not use otherwise
Rupee == "~"       \* U+20B9, the rupee sign
EAcute == "&"      \* U+00E9, a letter
Copyright == "|"   \* U+00A9, an emoji for emoji.replace_emoji

AsciiDigits == {"0", "1", "2", "3", "4", "5", "6", "7", "8", "9"}
LowerLetters == { Chr(LowerAlpha, i) : i \in 1..26 }
\* \w: letters (also outside ASCII), digits and the underscore
WordChars == LowerLetters \cup UpperLetters \cup AsciiDigits \cup {"_", EAcute}
\* \s
SpaceChars == {" ", "\n", "\t"}
CurrencySymbols == {"$", Rupee}
\* [0-9] and \d; the messages studied here hold no digit outside 0-9, where
\* the two classes agree
InClass(cls, c) ==
    CASE cls = "[0-9]" -> c \in AsciiDigits
      [] cls = "\\d"   -> c \in AsciiDigits
      [] cls = "\\S"   -> c \notin SpaceChars
      [] cls = "\\s"   -> c \in SpaceChars
      [] cls = "[- ]"  -> c \in {"-", " "}
      [] cls = "[-.\\s]" -> c \in {"-", "."} \cup SpaceChars
      [] cls = "[,.]"  -> c \in {",", "."}
      [] cls = "[$\\u20b9\\u20ac\\xa3\\xa5]" -> c \in CurrencySymbols
      [] cls = "[^\\w\\s]" -> c \notin WordChars \cup SpaceChars
      [] cls = "[.,!?;:]" -> c \in {".", ",", "!", "?", ";", ":"}

RECURSIVE MatchSeq(_, _, _)
RECURSIVE MatchNode(_, _, _)

\* the positions where a match of node n can end, when it starts at a position of P
MatchNode(n, s, P) ==
    CASE n.t = "lit" ->
           { p + Len(n.w) : p \in { q \in P : /\ q + Len(n.w) - 1 <= Len(s)
                                               /\ SubSeq(s, q, q + Len(n.w) - 1) = n.w } }
      [] n.t = "dot" ->
           { q \in 1..(Len(s) + 1) :
               \E p \in P : /\ q - p >= n.lo
                            /\ q - p <= n.hi
                            /\ \A k \in p..(q - 1) : Chr(s, k) # "\n" }
      [] n.t = "rep" ->
           { q \in 1..(Len(s) + 1) :
               \E p \in P : /\ q - p >= n.lo
                            /\ \A k \in p..(q - 1) : InClass(n.cls, Chr(s, k)) }
      [] n.t = "repn" ->
           { q \in 1..(Len(s) + 1) :
               \E p \in P : /\ q - p >= n.lo
                            /\ q - p <= n.hi
                            /\ \A k \in p..(q - 1) : InClass(n.cls, Chr(s, k)) }
      [] n.t = "bnd" ->
           { p \in P : (p > 1 /\ Chr(s, p - 1) \in WordChars)
                          # (p <= Len(s) /\ Chr(s, p) \in WordChars) }
      [] n.t = "alt" ->
           UNION { MatchSeq(n.alts[i], s, P) : i \in DOMAIN n.alts }

MatchSeq(pat, s, P) ==
    IF pat = <<>> \/ P = {} THEN P
    ELSE MatchSeq(Tail(pat), s, MatchNode(Head(pat), s, P))

\* re.search(pattern, s) is not None
re_search(pat, s) == MatchSeq(pat, s, 1..(Len(s) + 1)) # {}

Words(ws) == Alt([i \in DOMAIN ws |-> <<Lit(ws[i])>>])

\* ( ... )? and ( ... )??
Opt(seq) == Alt(<< seq, <<>> >>)

SetMax(S) == CHOOSE x \in S : \A y \in S : y <= x
SetMin(S) == CHOOSE x \in S : \A y \in S : x <= y

RECURSIVE re_sub_from(_, _, _, _, _)
\* re.sub(pattern, repl, s) from position i on, for a pattern that matches no
\* empty string and whose match, at a given start, is the longest one (every
\* quantifier of the patterns substituted here is greedy or has one way to
\* match); starts holds the positions where the pattern matches
re_sub_from(pat, repl, s, i, starts) ==
    LET ahead == { j \in starts : j >= i }
    IN  IF ahead = {} THEN SubSeq(s, i, Len(s))
        ELSE LET j == SetMin(ahead)
             IN  SubSeq(s, i, j - 1) \o repl
                 \o re_sub_from(pat, repl, s, SetMax(MatchSeq(pat, s, {j})), starts)

re_sub(pat, repl, s) ==
    re_sub_from(pat, repl, s, 1, { j \in 1..Len(s) : MatchSeq(pat, s, {j}) # {} })

---------------------------------------------------------------------------
(* detect_message.has_high_risk_signals *)

legitimate_context_words ==
    <<"university portal", "official portal", "careers portal", "college", "university">>

high_risk_patterns == <<
    [pattern |-> << Words(<<"job", "work", "hiring", "position", "opening">>), Dot(0, 30),
                    Words(<<"pay", "fee", "rs", Rupee, "payment">>), Dot(0, 30),
                    Rep("[0-9]", 3) >>,
     explanation |-> "Job offers requiring payment for registration, assessment, or application are almost always scams"],
    [pattern |-> << Words(<<"work from home", "earn from home">>), Dot(0, 30),
                    Words(<<Rupee, "rs">>), Dot(0, 1), Rep("\\d", 3) >>,
     explanation |-> "Promises of high earnings from work-at-home jobs without specific skills are typical scam tactics"],
    [pattern |-> << Words(<<"job", "work", "position">>), Dot(0, 30),
                    Words(<<"no interview", "without interview">>) >>,
     explanation |-> "Legitimate companies don't offer jobs without some form of assessment"],
    [pattern |-> << Words(<<"send", "share", "submit">>), Dot(0, 30),
                    Words(<<"aadhar", "pan", "account", "bank details", "password", "otp">>) >>,
     explanation |-> "Legitimate organizations don't request sensitive personal documents or financial details via messages"],
    [pattern |-> << Alt(<< <<Lit("registration fee")>>,
                           <<Lit("apply fee")>>,
                           <<Lit("pay"), Dot(0, 5), Words(<<"for", "to">>), Dot(0, 10),
                             Words(<<"register", "registration">>)>> >>) >>,
     explanation |-> "Requiring payment for registration is a common scam tactic"],
    [pattern |-> << Lit("pay"), Dot(0, 5), Words(<<Rupee, "rs">>), Dot(0, 5), Rep("[0-9]", 3) >>,
     explanation |-> "Requesting specific payment amounts in job or loan messages is a red flag"]
>>

RECURSIVE check_patterns_first_only(_, _, _)
\* the loop with a break after the first match
check_patterns_first_only(text_lower, i, acc) ==
    IF i > Len(high_risk_patterns) THEN acc
    ELSE IF re_search(high_risk_patterns[i].pattern, text_lower)
         THEN [risk_signals |-> Append(acc.risk_signals, high_risk_patterns[i].explanation),
               searched |-> Append(acc.searched, i)]
         ELSE check_patterns_first_only(text_lower, i + 1,
                  [risk_signals |-> acc.risk_signals, searched |-> Append(acc.searched, i)])

RECURSIVE check_patterns(_, _, _)
\* the loop of lines 59-62, from pattern i on; searched lists the patterns
\* re.search was called for
check_patterns(text_lower, i, acc) ==
    IF i > Len(high_risk_patterns) THEN acc
    ELSE check_patterns(text_lower, i + 1,
             [risk_signals |-> IF re_search(high_risk_patterns[i].pattern, text_lower)
                               THEN Append(acc.risk_signals, high_risk_patterns[i].explanation)
                               ELSE acc.risk_signals,
              searched |-> Append(acc.searched, i)])

NoScan == [risk_signals |-> <<>>, searched |-> <<>>]

\* has_high_risk_signals without the legitimate-context return
has_high_risk_signals_unsuppressed(t) == check_patterns(Lower(t), 1, NoScan)

\* has_high_risk_signals(text) for a str
has_high_risk_signals(t) ==
    LET text_lower == Lower(t)
        legitimate_context == ContainsAny(text_lower, legitimate_context_words)
    IN  IF legitimate_context THEN NoScan
        ELSE check_patterns(text_lower, 1, NoScan)

---------------------------------------------------------------------------
(* Python values that can arrive as the "message" of a request *)

PyStr(s) == [type |-> "str", s |-> s, n |-> Len(s)]
PyInt(n) == [type |-> "int", s |-> "", n |-> n]
PyList(n) == [type |-> "list", s |-> "", n |-> n]     \* a list of n strings
PyNone == [type |-> "NoneType", s |-> "", n |-> 0]

\* bool(v)
Truthy(v) ==
    CASE v.type = "str" -> v.s # ""
      [] v.type = "int" -> v.n # 0
      [] v.type = "list" -> v.n > 0
      [] v.type = "NoneType" -> FALSE

\* v[:50] does not raise
Sliceable(v) == v.type \in {"str", "list"}

---------------------------------------------------------------------------
(* The model artifact and detect_message.load_model *)

None == "None"
Unbound == "unbound"
TheModel == "LogisticRegression"
TheVectorizer == "TfidfVectorizer"

\* the file models/logistic_regression_model.pkl: absent, not unpicklable to
\* a dict, or a pickled dict with or without its 'model' and 'vectorizer'
Bundles ==
    { [exists |-> FALSE, dict |-> FALSE, model |-> FALSE, vectorizer |-> FALSE],
      [exists |-> TRUE, dict |-> FALSE, model |-> FALSE, vectorizer |-> FALSE] }
    \cup { [exists |-> TRUE, dict |-> TRUE, model |-> m, vectorizer |-> v] :
             m \in BOOLEAN, v \in BOOLEAN }

\* load_model(model_path): (model, vectorizer), (None, None) on any exception
load_model(b) ==
    IF b.exists /\ b.dict
    THEN [model |-> IF b.model THEN TheModel ELSE None,
          vectorizer |-> IF b.vectorizer THEN TheVectorizer ELSE None]
    ELSE [model |-> None, vectorizer |-> None]

---------------------------------------------------------------------------
(* data_preparation: safe_tokenize and DataPreparation.preprocess_text.    *)
(* res tells which NLTK resources the process finds: the punkt tokenizer,  *)
(* the stopword corpus and WordNet.                                        *)

RECURSIVE split_from(_, _)
\* str.split(): the maximal runs of non-whitespace characters, from
\* position i on
split_from(s, i) ==
    LET words == { j \in i..Len(s) : Chr(s, j) \notin SpaceChars }
    IN  IF words = {} THEN <<>>
        ELSE LET first == SetMin(words)
                 last == SetMax({ k \in first..Len(s) : \A j \in first..k : j \in words })
             IN  <<SubSeq(s, first, last)>> \o split_from(s, last + 1)

split(s) == split_from(s, 1)

RECURSIVE join(_)
\* ' '.join(tokens)
join(tokens) ==
    IF tokens = <<>> THEN ""
    ELSE IF Len(tokens) = 1 THEN tokens[1]
    ELSE tokens[1] \o " " \o join(Tail(tokens))

\* str.strip()
strip(s) ==
    LET kept == { j \in 1..Len(s) : Chr(s, j) \notin SpaceChars }
    IN  IF kept = {} THEN "" ELSE SubSeq(s, SetMin(kept), SetMax(kept))

EndsWith(w, suffix) ==
    Len(w) >= Len(suffix) /\ SubSeq(w, Len(w) - Len(suffix) + 1, Len(w)) = suffix

DropLast(w, k) == SubSeq(w, 1, Len(w) - k)

RECURSIVE FlatMap(_, _)
\* the concatenation of Op(x) for the items x of a sequence
FlatMap(Op(_), seq) ==
    IF seq = <<>> THEN <<>> ELSE Op(Head(seq)) \o FlatMap(Op, Tail(seq))

\* the words nltk's Treebank tokenizer splits in two
treebank_contractions ==
    [w \in {"cannot", "gimme", "gonna", "gotta", "lemme", "wanna"} |->
        CASE w = "cannot" -> <<"can", "not">>
          [] w = "gimme"  -> <<"gim", "me">>
          [] w = "gonna"  -> <<"gon", "na">>
          [] w = "gotta"  -> <<"got", "ta">>
          [] w = "lemme"  -> <<"lem", "me">>
          [] w = "wanna"  -> <<"wan", "na">>]

\* nltk.word_tokenize(text) for a text of word characters and blanks: a
\* LookupError without the punkt resource
word_tokenize(text, res) ==
    LET Treebank(w) == IF w \in DOMAIN treebank_contractions
                       THEN treebank_contractions[w] ELSE <<w>>
    IN  IF ~res.punkt
        THEN [raised |-> "LookupError", tokens |-> <<>>]
        ELSE [raised |-> "", tokens |-> FlatMap(Treebank, split(text))]

\* re.sub(r'([.,!?;:])', r' \1 ', text)
space_punctuation(text) ==
    MapChars(LAMBDA c : IF InClass("[.,!?;:]", c) THEN " " \o c \o " " ELSE c, text)

\* safe_tokenize with no except clause
safe_tokenize_uncaught(text, res) == word_tokenize(text, res)

\* safe_tokenize(text)
safe_tokenize(text, res) ==
    LET r == word_tokenize(text, res)
    IN  IF r.raised = "LookupError"
        THEN [raised |-> "", tokens |-> split(space_punctuation(text))]
        ELSE r

\* stopwords.words('english') of nltk
nltk_stopwords ==
    {"i", "me", "my", "myself", "we", "our", "ours", "ourselves", "you", "you're",
     "you've", "you'll", "you'd", "your", "yours", "yourself", "yourselves", "he",
     "him", "his", "himself", "she", "she's", "her", "hers", "herself", "it", "it's",
     "its", "itself", "they", "them", "their", "theirs", "themselves", "what",
     "which", "who", "whom", "this", "that", "that'll", "these", "those", "am", "is",
     "are", "was", "were", "be", "been", "being", "have", "has", "had", "having",
     "do", "does", "did", "doing", "a", "an", "the", "and", "but", "if", "or",
     "because", "as", "until", "while", "of", "at", "by", "for", "with", "about",
     "against", "between", "into", "through", "during", "before", "after", "above",
     "below", "to", "from", "up", "down", "in", "out", "on", "off", "over", "under",
     "again", "further", "then", "once", "here", "there", "when", "where", "why",
     "how", "all", "any", "both", "each", "few", "more", "most", "other", "some",
     "such", "no", "nor", "not", "only", "own", "same", "so", "than", "too", "very",
     "s", "t", "can", "will", "just", "don", "don't", "should", "should've", "now",
     "d", "ll", "m", "o", "re", "ve", "y", "ain", "aren", "aren't", "couldn",
     "couldn't", "didn", "didn't", "doesn", "doesn't", "hadn", "hadn't", "hasn",
     "hasn't", "haven", "haven't", "isn", "isn't", "ma", "mightn", "mightn't",
     "mustn", "mustn't", "needn", "needn't", "shan", "shan't", "shouldn",
     "shouldn't", "wasn", "wasn't", "weren", "weren't", "won", "won't", "wouldn",
     "wouldn't"}

\* the fallback set of DataPreparation.__init__
minimal_stopwords ==
    {"a", "an", "the", "and", "or", "but", "if", "then", "to", "of", "for", "in",
     "on", "at", "by", "with", "about", "as", "is", "am", "are", "was", "were", "be",
     "been", "being", "have", "has", "had", "do", "does", "did", "will", "would",
     "shall", "should", "can", "could", "may", "might", "must", "this", "that",
     "these", "those"}

\* self.stop_words as DataPreparation.__init__ sets it
stop_words(res) == IF res.stopwords THEN nltk_stopwords ELSE minimal_stopwords

\* the nouns of WordNet among the words of the messages studied here
wordnet_nouns ==
    {"job", "offer", "pay", "registration", "fee", "official", "university",
     "portal", "account", "statement", "work", "home", "interview", "class",
     "man", "u", "us", "call", "bank", "detail", "payment"}

\* noun.exc of WordNet, as far as these words go
wordnet_exceptions == [w \in {"men"} |-> <<"man">>]

\* MORPHOLOGICAL_SUBSTITUTIONS[NOUN] of nltk's WordNet reader
noun_substitutions ==
    << <<"s", "">>, <<"ses", "s">>, <<"ves", "f">>, <<"xes", "x">>, <<"zes", "z">>,
       <<"ches", "ch">>, <<"shes", "sh">>, <<"men", "man">>, <<"ies", "y">> >>

InWordNet(form) == form \in wordnet_nouns

RECURSIVE shortest(_, _)
\* min(lemmas, key=len): the first of the shortest items
shortest(lemmas, best) ==
    IF lemmas = <<>> THEN best
    ELSE shortest(Tail(lemmas), IF Len(Head(lemmas)) < Len(best) THEN Head(lemmas) ELSE best)

\* WordNetLemmatizer.lemmatize(word): morphy for nouns, then the shortest lemma
wordnet_lemmatize(word) ==
    LET Substituted(rule) == IF EndsWith(word, rule[1])
                             THEN <<DropLast(word, Len(rule[1])) \o rule[2]>> ELSE <<>>
        candidates == IF word \in DOMAIN wordnet_exceptions
                      THEN <<word>> \o wordnet_exceptions[word]
                      ELSE <<word>> \o FlatMap(Substituted, noun_substitutions)
        lemmas == SelectSeq(candidates, InWordNet)
    IN  IF lemmas = <<>> THEN word ELSE shortest(Tail(lemmas), Head(lemmas))

\* line 189
simple_lemmatizer(w) == IF EndsWith(w, "s") THEN DropLast(w, 1) ELSE w

\* lines 182-190: a LookupError of the lemmatizer selects the suffix rule
\* for every token
lemmatize_tokens(tokens, res) ==
    IF res.wordnet
    THEN [k \in DOMAIN tokens |-> wordnet_lemmatize(tokens[k])]
    ELSE [k \in DOMAIN tokens |-> simple_lemmatizer(tokens[k])]

\* the table with the generic suffixes first
contraction_patterns_generic_first ==
    << <<"'t", " not">>, <<"n't", " not">>, <<"won't", "will not">>, <<"can't", "cannot">>,
       <<"'re", " are">>, <<"'s", " is">>, <<"'d", " would">>, <<"'ll", " will">>,
       <<"'ve", " have">>, <<"'m", " am">> >>

\* lines 135-146, in the order of the dictionary
contraction_patterns ==
    << <<"won't", "will not">>, <<"can't", "cannot">>, <<"n't", " not">>,
       <<"'re", " are">>, <<"'s", " is">>, <<"'d", " would">>, <<"'ll", " will">>,
       <<"'t", " not">>, <<"'ve", " have">>, <<"'m", " am">> >>

RECURSIVE expand_contractions(_, _)
\* lines 148-149, from entry k on
expand_contractions(text, k) ==
    IF k > Len(contraction_patterns) THEN text
    ELSE expand_contractions(
             re_sub(<<Lit(contraction_patterns[k][1])>>, contraction_patterns[k][2], text),
             k + 1)

url_pattern ==
    << Alt(<< << Lit("http"), Opt(<<Lit("s")>>), Lit("://"), Rep("\\S", 1) >>,
              << Lit("www."), Rep("\\S", 1) >> >>) >>

email_pattern == << Rep("\\S", 1), Lit("@"), Rep("\\S", 1) >>

phone_pattern ==
    << Alt(<< << Bnd, Opt(<< Lit("+"), RepN("\\d", 1, 3), RepN("[- ]", 0, 1) >>),
                 RepN("\\d", 10, 10), Bnd >>,
              << Bnd, RepN("\\d", 3, 3), RepN("[-.\\s]", 0, 1), RepN("\\d", 3, 3),
                 RepN("[-.\\s]", 0, 1), RepN("\\d", 4, 4), Bnd >> >>) >>

currency_pattern ==
    << Alt(<< << RepN("[$\\u20b9\\u20ac\\xa3\\xa5]", 1, 1), Rep("\\d", 1),
                 Opt(<< RepN("[,.]", 1, 1), Rep("\\d", 1) >>) >>,
              << Rep("\\d", 1), Opt(<< RepN("[,.]", 1, 1), Rep("\\d", 1) >>),
                 RepN("[$\\u20b9\\u20ac\\xa3\\xa5]", 1, 1) >> >>) >>

\* the characters emoji.replace_emoji removes, among those of the messages
EmojiChars == {Copyright}

\* emoji.replace_emoji(text, replace='')
replace_emoji(text) == MapChars(LAMBDA c : IF c \in EmojiChars THEN "" ELSE c, text)

\* lines 122-132: lowercase, URLs, e-mail addresses and phone numbers removed
before_contractions(text) ==
    The({ re_sub(phone_pattern, "", no_emails) :
            no_emails \in { re_sub(email_pattern, "", no_urls) :
              no_urls \in { re_sub(url_pattern, "", lowered) :
                lowered \in {Lower(text)} } } })

\* lines 122-149: lowercase, URLs, e-mail addresses and phone numbers
\* removed, contractions expanded
expanded_text(text) ==
    The({ expand_contractions(no_phones, 1) :
            no_phones \in { re_sub(phone_pattern, "", no_emails) :
              no_emails \in { re_sub(email_pattern, "", no_urls) :
                no_urls \in { re_sub(url_pattern, "", lowered) :
                  lowered \in {Lower(text)} } } } })

\* lines 122-161 with every currency amount replaced by a word
clean_text_tagging(text) ==
    The({ strip(spaced) :
            spaced \in { re_sub(<<Rep("\\s", 1)>>, " ", no_emoji) :
              no_emoji \in { replace_emoji(no_punctuation) :
                no_punctuation \in { re_sub(<<RepN("[^\\w\\s]", 1, 1)>>, "", tagged) :
                  tagged \in { re_sub(currency_pattern, " money ", expanded) :
                    expanded \in {expanded_text(text)} } } } } })

\* lines 122-161: the text before tokenization
clean_text(text) ==
    The({ strip(spaced) :
            spaced \in { re_sub(<<Rep("\\s", 1)>>, " ", no_emoji) :
              no_emoji \in { replace_emoji(no_punctuation) :
                no_punctuation \in { re_sub(<<RepN("[^\\w\\s]", 1, 1)>>, "", no_currency) :
                  no_currency \in { re_sub(currency_pattern, "", expanded) :
                    expanded \in {expanded_text(text)} } } } } })

\* preprocess_text(text, remove_stopwords, lemmatize) for a Python value
\* text: the string it returns with its tokens, or the exception it raises
preprocess_text(text, res, remove_stopwords, lemmatize) ==
    IF text.type # "str" THEN [raised |-> "", text |-> "", tokens |-> <<>>]
    ELSE LET NotStopword(word) == word \notin stop_words(res)
         IN  The({ IF tokenized.raised # ""
                   THEN [raised |-> tokenized.raised, text |-> "", tokens |-> <<>>]
                   ELSE The({ [raised |-> "", text |-> join(tokens), tokens |-> tokens] :
                                tokens \in { IF lemmatize THEN lemmatize_tokens(kept, res)
                                                          ELSE kept :
                                  kept \in { IF remove_stopwords
                                             THEN SelectSeq(tokenized.tokens, NotStopword)
                                             ELSE tokenized.tokens } } }) :
                     tokenized \in { safe_tokenize(cleaned, res) :
                                       cleaned \in {clean_text(text.s)} } })

---------------------------------------------------------------------------
(* The messages and the deployments of the study *)

RiskyText == "JOB offer: pay Rs 500 registration fee"
LegitText == "official university portal, pay registration fee of 500"
PlainText == "Your SBI account statement is ready"
RichText == "Official SBI job statement: pay registration fee, pay fees to account"
UrgentText == "Urgent job: pay registration fee today, share OTP, no interview"
OovText == "Hello there!"
BlankText == " "
ScenarioD == "work from home, earn " \o Rupee \o "5000 daily, no interview required"
ScenarioDCampus == "College placement cell: " \o ScenarioD

Texts == {RiskyText, LegitText, PlainText, RichText, UrgentText, OovText, BlankText,
          ScenarioD, ScenarioDCampus}

ResourceConfigs == [punkt : BOOLEAN, stopwords : BOOLEAN, wordnet : BOOLEAN]

\* a host with every NLTK resource and a host with none
Deployments ==
    { [punkt |-> TRUE, stopwords |-> TRUE, wordnet |-> TRUE],
      [punkt |-> FALSE, stopwords |-> FALSE, wordnet |-> FALSE] }

---------------------------------------------------------------------------
(* detect_message.get_prediction *)

\* the artifact's vocabulary (sorted, as TfidfVectorizer keeps it) and the
\* coefficient of each term
feature_names == <<"account", "fee", "job", "official", "pay", "registration", "sbi",
                   "statement">>
coefficients == <<-2, 3, 1, -3, 2, 3, -1, 0>>
\* the inverse document frequency of each term
idf == <<2, 1, 1, 2, 1, 1, 3, 2>>

Abs(x) == IF x < 0 THEN -x ELSE x
Max(a, b) == IF a >= b THEN a ELSE b

\* the analyzer of TfidfVectorizer: lowercase, then the tokens of
\* (?u)\b\w\w+\b, on a text of words separated by blanks
analyze(text) == SelectSeq(split(Lower(text)), LAMBDA w : Len(w) >= 2)

Count(tokens, term) == Cardinality({ k \in DOMAIN tokens : tokens[k] = term })

RECURSIVE SumSquares(_)
SumSquares(v) == IF v = <<>> THEN 0 ELSE Head(v) * Head(v) + SumSquares(Tail(v))

ISqrt(n) == CHOOSE r \in 0..n : r * r <= n /\ n < (r + 1) * (r + 1)

\* a vectorizer whose matrix gets one more column for each unknown token
transform_growing(text) ==
    LET tokens == analyze(text)
        Known(w) == \E i \in DOMAIN feature_names : feature_names[i] = w
        unknown == SelectSeq(tokens, LAMBDA w : ~Known(w))
    IN  [i \in DOMAIN feature_names |-> Count(tokens, feature_names[i]) * idf[i] * 100]
        \o [k \in DOMAIN unknown |-> 100]

\* vectorizer.transform([text]).toarray()[0]: one column per vocabulary
\* term, its count times its idf, the row scaled to Euclidean length 1
\* (per-mille, the norm rounded down to a whole number)
transform(text) ==
    LET tokens == analyze(text)
        tf_idf == [i \in DOMAIN feature_names |-> Count(tokens, feature_names[i]) * idf[i]]
        l2 == ISqrt(SumSquares(tf_idf))
    IN  [i \in DOMAIN feature_names |-> IF l2 = 0 THEN 0 ELSE (tf_idf[i] * 1000) \div l2]

\* data_prep.preprocess_text(text) of line 70 for each message of the study
\* on each host, computed once
processed_texts ==
    { [res |-> res, text |-> t, processed |-> preprocess_text(PyStr(t), res, TRUE, TRUE)] :
        res \in Deployments, t \in Texts }

\* line 70: processed_text = data_prep.preprocess_text(text)
processed_text_of(message, res) ==
    IF message.type = "str" /\ message.s \in Texts /\ res \in Deployments
    THEN (CHOOSE e \in processed_texts : e.res = res /\ e.text = message.s).processed
    ELSE preprocess_text(message, res, TRUE, TRUE)

\* LogisticRegression.predict: class 1 iff the decision score is positive
predict(score) == IF score > 0 THEN 1 ELSE 0

\* LogisticRegression.predict_proba: <<P(class 0), P(class 1)>> in per-mille
predict_proba(p_scam) == <<1000 - p_scam, p_scam>>

RECURSIVE insert_by_value(_, _)
\* the sort key without abs()
insert_by_value(sorted, e) ==
    IF sorted = <<>> THEN <<e>>
    ELSE IF Head(sorted).importance >= e.importance
         THEN <<Head(sorted)>> \o insert_by_value(Tail(sorted), e)
         ELSE <<e>> \o sorted

RECURSIVE insert_by_abs_unstable(_, _)
\* a sort that puts an item before the items of equal |importance|
insert_by_abs_unstable(sorted, e) ==
    IF sorted = <<>> THEN <<e>>
    ELSE IF Abs(Head(sorted).importance) > Abs(e.importance)
         THEN <<Head(sorted)>> \o insert_by_abs_unstable(Tail(sorted), e)
         ELSE <<e>> \o sorted

RECURSIVE insert_by_abs(_, _)
\* insert item e into a list sorted by descending |importance|, after the
\* items that do not come after it (sorted() is stable, also with reverse=True)
insert_by_abs(sorted, e) ==
    IF sorted = <<>> THEN <<e>>
    ELSE IF Abs(Head(sorted).importance) >= Abs(e.importance)
         THEN <<Head(sorted)>> \o insert_by_abs(Tail(sorted), e)
         ELSE <<e>> \o sorted

RECURSIVE sorted_by_abs(_, _)
sorted_by_abs(items, acc) ==
    IF items = <<>> THEN acc
    ELSE sorted_by_abs(Tail(items), insert_by_abs(acc, Head(items)))

RECURSIVE feature_importance(_, _)
\* lines 92-101: the (word, importance) items of the non-zero features, from
\* column idx on, in column order
feature_importance(input_vector, idx) ==
    IF idx > Len(input_vector) THEN <<>>
    ELSE (IF input_vector[idx] > 0 /\ idx <= Len(feature_names)
          THEN << [word |-> feature_names[idx],
                   importance |-> coefficients[idx] * input_vector[idx]] >>
          ELSE <<>>)
         \o feature_importance(input_vector, idx + 1)

FirstN(seq, k) == SubSeq(seq, 1, IF Len(seq) < k THEN Len(seq) ELSE k)

NoClf == [called |-> FALSE, raised |-> FALSE, error |-> "", score |-> 0, p_scam |-> 0,
          label |-> "", confidence |-> 0, processed_text |-> "", input_vector |-> <<>>,
          important_features |-> <<>>]

\* get_prediction with the label mapping reversed
get_prediction_flipped(model, message, vectorizer, o) ==
    The({ IF processed_text.raised # ""
          THEN [NoClf EXCEPT !.called = TRUE, !.raised = TRUE, !.error = processed_text.raised]
          ELSE IF vectorizer = None
          THEN [NoClf EXCEPT !.called = TRUE, !.raised = TRUE,
                             !.error = "'NoneType' object has no attribute 'transform'"]
          ELSE IF model = None
          THEN [NoClf EXCEPT !.called = TRUE, !.raised = TRUE,
                             !.error = "'NoneType' object has no attribute 'predict'"]
          ELSE LET confidence == predict_proba(o.p_scam)
                   input_vector == transform(processed_text.text)
               IN  [called |-> TRUE, raised |-> FALSE, error |-> "",
                    score |-> o.score, p_scam |-> o.p_scam,
                    label |-> IF predict(o.score) = 0 THEN "scam" ELSE "real",
                    confidence |-> Max(confidence[1], confidence[2]),
                    processed_text |-> processed_text.text,
                    input_vector |-> input_vector,
                    important_features |->
                        FirstN(sorted_by_abs(feature_importance(input_vector, 1), <<>>), 5)] :
          processed_text \in {processed_text_of(message, resources)} })

\* get_prediction(model, text, vectorizer); o is what the classifier computes
\* for the features of the text: the sign of the decision score and P(scam)
get_prediction(model, message, vectorizer, o) ==
    The({ IF processed_text.raised # ""
          THEN [NoClf EXCEPT !.called = TRUE, !.raised = TRUE, !.error = processed_text.raised]
          ELSE IF vectorizer = None
          THEN [NoClf EXCEPT !.called = TRUE, !.raised = TRUE,
                             !.error = "'NoneType' object has no attribute 'transform'"]
          ELSE IF model = None
          THEN [NoClf EXCEPT !.called = TRUE, !.raised = TRUE,
                             !.error = "'NoneType' object has no attribute 'predict'"]
          ELSE LET confidence == predict_proba(o.p_scam)
                   input_vector == transform(processed_text.text)
               IN  [called |-> TRUE, raised |-> FALSE, error |-> "",
                    score |-> o.score, p_scam |-> o.p_scam,
                    label |-> IF predict(o.score) = 1 THEN "scam" ELSE "real",
                    confidence |-> Max(confidence[1], confidence[2]),
                    processed_text |-> processed_text.text,
                    input_vector |-> input_vector,
                    important_features |->
                        FirstN(sorted_by_abs(feature_importance(input_vector, 1), <<>>), 5)] :
          processed_text \in {processed_text_of(message, resources)} })

---------------------------------------------------------------------------
(* The override of the three entry points, and the response fields *)

\* api.py 217-219 with <= in place of <
override_at_threshold(risk_signals, label, confidence) ==
    IF risk_signals # <<>> /\ label = "real" /\ confidence <= 750
    THEN [label |-> "scam", confidence |-> Max(confidence, 850)]
    ELSE [label |-> label, confidence |-> confidence]

\* api.py 217-219
override_detect(risk_signals, label, confidence) ==
    IF risk_signals # <<>> /\ label = "real" /\ confidence < 750
    THEN [label |-> "scam", confidence |-> Max(confidence, 850)]
    ELSE [label |-> label, confidence |-> confidence]

\* file_api.py 120-122 without the flip
override_none(risk_signals, label, confidence) ==
    [label |-> label, confidence |-> confidence]

\* file_api.py 120-122
override_upload(risk_signals, label, confidence) ==
    IF risk_signals # <<>> /\ label = "real" /\ confidence < 750
    THEN [label |-> "scam", confidence |-> Max(confidence, 850)]
    ELSE [label |-> label, confidence |-> confidence]

\* detect_message.py 137-139 with the threshold at 0.6
override_cli_lenient(risk_signals, label, confidence) ==
    IF risk_signals # <<>> /\ label = "real" /\ confidence < 600
    THEN [label |-> "scam", confidence |-> Max(confidence, 850)]
    ELSE [label |-> label, confidence |-> confidence]

\* detect_message.py 137-139 and 201-203
override_cli(risk_signals, label, confidence) ==
    IF risk_signals # <<>> /\ label = "real" /\ confidence < 750
    THEN [label |-> "scam", confidence |-> Max(confidence, 850)]
    ELSE [label |-> label, confidence |-> confidence]

DigitStr(d) == Chr("0123456789", d + 1)

RECURSIVE NatStr(_)
NatStr(n) == IF n < 10 THEN DigitStr(n) ELSE NatStr(n \div 10) \o DigitStr(n % 10)

\* f"{confidence:.2%}" for a confidence given in per-mille
confidence_percentage(c) == NatStr(c \div 10) \o "." \o DigitStr(c % 10) \o "0%"

\* the records with >= in place of > and the signed importance as weight
formatted_features_signed(important_features) ==
    [k \in DOMAIN important_features |->
        [term |-> important_features[k].word,
         indicator_type |-> IF important_features[k].importance >= 0
                            THEN "Scam indicator" ELSE "Legitimate indicator",
         weight |-> important_features[k].importance]]

\* the records of "important_features" (api.py 236-240, file_api.py 140-144)
formatted_features(important_features) ==
    [k \in DOMAIN important_features |->
        [term |-> important_features[k].word,
         indicator_type |-> IF important_features[k].importance > 0
                            THEN "Scam indicator" ELSE "Legitimate indicator",
         weight |-> Abs(important_features[k].importance)]]

RECURSIVE JoinComma(_)
\* ', '.join(words)
JoinComma(words) ==
    IF words = <<>> THEN ""
    ELSE IF Len(words) = 1 THEN words[1]
    ELSE words[1] \o ", " \o JoinComma(Tail(words))

IsScamIndicator(f) == f.importance > 0
IsLegitimateIndicator(f) == f.importance < 0
WordsOf(fs) == [k \in DOMAIN fs |-> fs[k].word]

\* the explanation sentences chosen by the attributions alone, whatever the
\* final label
explanations_of_unlabelled(label, important_features, message) ==
    LET scam_indicators == WordsOf(SelectSeq(important_features, IsScamIndicator))
        legitimate_indicators == WordsOf(SelectSeq(important_features, IsLegitimateIndicator))
        message_lower == Lower(message)
        When(c, sentence) == IF c THEN <<sentence>> ELSE <<>>
    IN  IF scam_indicators # <<>>
        THEN <<"This message was classified as a scam primarily because it contains suspicious terms like: "
                 \o JoinComma(FirstN(scam_indicators, 5))>>
             \o When(ContainsAny(message_lower,
                       <<"registration fee", "registration", "fee", "fees", "payment", "pay">>),
                     "Requesting upfront payment or registration fees is a common tactic in job and loan scams.")
             \o When(ContainsAny(message_lower,
                       <<"free", "guarantee", "guaranteed", "immediate", "urgent", "today", "risk-free">>),
                     "Promises of guaranteed or instant approvals are often used in loan scams.")
             \o When(ContainsAny(message_lower,
                       <<"lottery", "prize", "won", "winner", "selected", "lucky">>),
                     "Claims about winning prizes or being specially selected are classic scam techniques.")
             \o When(ContainsAny(message_lower,
                       <<"aadhar", "pan", "kyc", "bank details", "card details", "otp", "password", "verify">>),
                     "Requesting identity documents or financial information via messages is risky.")
             \o When(ContainsAny(message_lower,
                       <<"no interview", "without interview", "work from home", "earn from home">>),
                     "Job offers without proper interviews or promising easy work-from-home income are often scams.")
        ELSE IF legitimate_indicators # <<>>
        THEN <<"This message was classified as legitimate primarily because it contains trusted terms like: "
                 \o JoinComma(FirstN(legitimate_indicators, 5))>>
             \o When(ContainsAny(message_lower,
                       <<"official", "portal", "verified", "customer service", "helpline">>),
                     "The message references official channels or verified services.")
             \o When(ContainsAny(message_lower,
                       <<"sbi", "hdfc", "icici", "axis", "pnb", "kotak", "rbi">>),
                     "The message mentions established banking institutions.")
             \o When(ContainsAny(message_lower,
                       <<"tcs", "infosys", "wipro", "cognizant", "tech mahindra">>),
                     "The message mentions reputable companies.")
        ELSE <<>>

\* the explanation sentences with the keywords looked up in the message as
\* it was sent
explanations_of_raw(label, important_features, message) ==
    LET scam_indicators == WordsOf(SelectSeq(important_features, IsScamIndicator))
        legitimate_indicators == WordsOf(SelectSeq(important_features, IsLegitimateIndicator))
        message_lower == message
        When(c, sentence) == IF c THEN <<sentence>> ELSE <<>>
    IN  IF label = "scam" /\ scam_indicators # <<>>
        THEN <<"This message was classified as a scam primarily because it contains suspicious terms like: "
                 \o JoinComma(FirstN(scam_indicators, 5))>>
             \o When(ContainsAny(message_lower,
                       <<"registration fee", "registration", "fee", "fees", "payment", "pay">>),
                     "Requesting upfront payment or registration fees is a common tactic in job and loan scams.")
             \o When(ContainsAny(message_lower,
                       <<"free", "guarantee", "guaranteed", "immediate", "urgent", "today", "risk-free">>),
                     "Promises of guaranteed or instant approvals are often used in loan scams.")
             \o When(ContainsAny(message_lower,
                       <<"lottery", "prize", "won", "winner", "selected", "lucky">>),
                     "Claims about winning prizes or being specially selected are classic scam techniques.")
             \o When(ContainsAny(message_lower,
                       <<"aadhar", "pan", "kyc", "bank details", "card details", "otp", "password", "verify">>),
                     "Requesting identity documents or financial information via messages is risky.")
             \o When(ContainsAny(message_lower,
                       <<"no interview", "without interview", "work from home", "earn from home">>),
                     "Job offers without proper interviews or promising easy work-from-home income are often scams.")
        ELSE IF label = "real" /\ legitimate_indicators # <<>>
        THEN <<"This message was classified as legitimate primarily because it contains trusted terms like: "
                 \o JoinComma(FirstN(legitimate_indicators, 5))>>
             \o When(ContainsAny(message_lower,
                       <<"official", "portal", "verified", "customer service", "helpline">>),
                     "The message references official channels or verified services.")
             \o When(ContainsAny(message_lower,
                       <<"sbi", "hdfc", "icici", "axis", "pnb", "kotak", "rbi">>),
                     "The message mentions established banking institutions.")
             \o When(ContainsAny(message_lower,
                       <<"tcs", "infosys", "wipro", "cognizant", "tech mahindra">>),
                     "The message mentions reputable companies.")
        ELSE <<>>

\* api.py 245-279: the explanation sentences
explanations_of(label, important_features, message) ==
    LET scam_indicators == WordsOf(SelectSeq(important_features, IsScamIndicator))
        legitimate_indicators == WordsOf(SelectSeq(important_features, IsLegitimateIndicator))
        message_lower == Lower(message)
        When(c, sentence) == IF c THEN <<sentence>> ELSE <<>>
    IN  IF label = "scam" /\ scam_indicators # <<>>
        THEN <<"This message was classified as a scam primarily because it contains suspicious terms like: "
                 \o JoinComma(FirstN(scam_indicators, 5))>>
             \o When(ContainsAny(message_lower,
                       <<"registration fee", "registration", "fee", "fees", "payment", "pay">>),
                     "Requesting upfront payment or registration fees is a common tactic in job and loan scams.")
             \o When(ContainsAny(message_lower,
                       <<"free", "guarantee", "guaranteed", "immediate", "urgent", "today", "risk-free">>),
                     "Promises of guaranteed or instant approvals are often used in loan scams.")
             \o When(ContainsAny(message_lower,
                       <<"lottery", "prize", "won", "winner", "selected", "lucky">>),
                     "Claims about winning prizes or being specially selected are classic scam techniques.")
             \o When(ContainsAny(message_lower,
                       <<"aadhar", "pan", "kyc", "bank details", "card details", "otp", "password", "verify">>),
                     "Requesting identity documents or financial information via messages is risky.")
             \o When(ContainsAny(message_lower,
                       <<"no interview", "without interview", "work from home", "earn from home">>),
                     "Job offers without proper interviews or promising easy work-from-home income are often scams.")
        ELSE IF label = "real" /\ legitimate_indicators # <<>>
        THEN <<"This message was classified as legitimate primarily because it contains trusted terms like: "
                 \o JoinComma(FirstN(legitimate_indicators, 5))>>
             \o When(ContainsAny(message_lower,
                       <<"official", "portal", "verified", "customer service", "helpline">>),
                     "The message references official channels or verified services.")
             \o When(ContainsAny(message_lower,
                       <<"sbi", "hdfc", "icici", "axis", "pnb", "kotak", "rbi">>),
                     "The message mentions established banking institutions.")
             \o When(ContainsAny(message_lower,
                       <<"tcs", "infosys", "wipro", "cognizant", "tech mahindra">>),
                     "The message mentions reputable companies.")
        ELSE <<>>

\* a response: the HTTP status and the keys of its JSON body with the values
\* of the keys the engine fills; for the CLI, what main printed (status 0),
\* or crashed when an exception left main
NoResp == [endpoint |-> "", status |-> 0, crashed |-> FALSE, keys |-> {},
           error |-> "", classification |-> "", confidence |-> 0,
           confidence_percentage |-> "", high_risk_signals |-> <<>>,
           important_features |-> <<>>, explanations |-> <<>>]

ErrorResp(endpoint, status, msg) ==
    [NoResp EXCEPT !.endpoint = endpoint, !.status = status, !.keys = {"error"},
                   !.error = msg]

\* the keys a decision adds when its lists are not empty
OptionalKeys(risk_signals, important_features) ==
    (IF risk_signals # <<>> THEN {"high_risk_signals"} ELSE {})
    \cup (IF important_features # <<>> THEN {"important_features"} ELSE {})

---------------------------------------------------------------------------
(* api.detect_scam *)

NoReq == [endpoint |-> "", kind |-> "", message |-> PyNone, raises |-> FALSE,
          has_file |-> FALSE, filename |-> "", ext |-> ""]

DetectReq(kind, message, raises) ==
    [NoReq EXCEPT !.endpoint = "/detect", !.kind = kind, !.message = message,
                  !.raises = raises]

NotSubscriptable(v) == "'" \o v.type \o "' object is not subscriptable"
NoLower(v) == "'" \o v.type \o "' object has no attribute 'lower'"

\* what one call of a handler does: its response, what get_prediction
\* returned, and the module globals and the load count after it
Effect(r, c, m, v, n) == [resp |-> r, clf |-> c, model |-> m, vectorizer |-> v, loads |-> n]

\* api.py 197-199 with the load retried when the model is missing
model_ready_detect_retrying ==
    IF api_model = None
    THEN LET l == load_model(bundle)
         IN  [ok |-> l.model # None, model |-> l.model, vectorizer |-> l.vectorizer,
              loads |-> loads + 1]
    ELSE [ok |-> TRUE, model |-> api_model, vectorizer |-> api_vectorizer, loads |-> loads]

\* api.py 197-199: the handler only looks at the global; it never loads
model_ready_detect ==
    [ok |-> api_model # None, model |-> api_model, vectorizer |-> api_vectorizer,
     loads |-> loads]

\* api.py 222-283 with the confidence left out of the response
decision_detect_no_confidence(message, risk_signals, pred, final) ==
    [NoResp EXCEPT !.endpoint = "/detect", !.status = 200,
                   !.keys = {"message", "classification"},
                   !.classification = final.label]

\* api.py 222-283: the response of a decision
decision_detect(message, risk_signals, pred, final) ==
    [endpoint |-> "/detect", status |-> 200, crashed |-> FALSE,
     keys |-> {"message", "classification", "confidence", "confidence_percentage"}
              \cup OptionalKeys(risk_signals, pred.important_features)
              \cup (IF pred.important_features # <<>> THEN {"explanations"} ELSE {}),
     error |-> "",
     classification |-> final.label,
     confidence |-> final.confidence,
     confidence_percentage |-> confidence_percentage(final.confidence),
     high_risk_signals |-> risk_signals,
     important_features |-> formatted_features(pred.important_features),
     explanations |-> IF pred.important_features # <<>>
                      THEN explanations_of(final.label, pred.important_features, message)
                      ELSE <<>>]

\* detect_scam(): data is the request, o what the artifact computes for its text
detect_scam(data, o) ==
    LET Err(status, msg) ==
            Effect(ErrorResp("/detect", status, msg), NoClf, api_model, api_vectorizer, loads)
        message == IF data.kind \in {"message", "file"} THEN data.message ELSE PyNone
        ready == model_ready_detect
    IN  IF data.kind = "bad_json"                      \* request.get_json() raises
        THEN Err(500, "400 Bad Request: Failed to decode JSON object")
        ELSE IF data.kind = "no_json"                  \* not data
        THEN Err(400, "No data provided. Please send JSON with 'message' field or file data.")
        ELSE IF data.kind = "message" /\ ~Sliceable(message)   \* message[:50] raises
        THEN Err(500, NotSubscriptable(message))
        ELSE IF data.kind = "file" /\ data.raises      \* b64decode or get_document_text raises
        THEN Err(400, "Error processing file: Unsupported file format")
        ELSE IF data.kind = "file" /\ ~Truthy(message)
        THEN Err(400, "Could not extract text from the file.")
        ELSE IF ~Truthy(message)
        THEN Err(400, "No message or file provided. Please send JSON with 'message' field or file content.")
        ELSE IF ~ready.ok
        THEN Effect(ErrorResp("/detect", 500, "Model not initialized. Please try again."),
                    NoClf, ready.model, ready.vectorizer, ready.loads)
        ELSE IF message.type # "str"                   \* text.lower() raises
        THEN Effect(ErrorResp("/detect", 500, NoLower(message)),
                    NoClf, ready.model, ready.vectorizer, ready.loads)
        ELSE LET risk == has_high_risk_signals(message.s)
                 pred == get_prediction(ready.model, message, ready.vectorizer, o)
                 final == override_detect(risk.risk_signals, pred.label, pred.confidence)
             IN  IF pred.raised
                 THEN Effect(ErrorResp("/detect", 500, pred.error), pred,
                             ready.model, ready.vectorizer, ready.loads)
                 ELSE Effect(decision_detect(message.s, risk.risk_signals, pred, final),
                             pred, ready.model, ready.vectorizer, ready.loads)

---------------------------------------------------------------------------
(* file_api.upload_and_detect *)

UploadReq(has_file, filename, ext, raises, extracted) ==
    [NoReq EXCEPT !.endpoint = "/upload", !.kind = "upload", !.has_file = has_file,
                  !.filename = filename, !.ext = ext, !.raises = raises,
                  !.message = extracted]

supported_extensions == {"pdf", "docx", "doc", "jpg", "jpeg", "png", "bmp", "tiff"}
image_extensions == {"jpg", "jpeg", "png", "bmp", "tiff", "tif", "gif"}
OcrPlaceholder == "[OCR not available in this environment]"

\* file_api.py 105-111: load the artifact when a reference is missing
model_ready_upload ==
    IF file_model = None \/ file_vectorizer = None
    THEN LET l == load_model(bundle)
         IN  [ok |-> ~(l.model = None \/ l.vectorizer = None),
              model |-> l.model, vectorizer |-> l.vectorizer, loads |-> loads + 1]
    ELSE [ok |-> TRUE, model |-> file_model, vectorizer |-> file_vectorizer, loads |-> loads]

\* file_api.py 125-148: the response of a decision
decision_upload(risk_signals, pred, final) ==
    [endpoint |-> "/upload", status |-> 200, crashed |-> FALSE,
     keys |-> {"filename", "text", "classification", "confidence", "confidence_percentage"}
              \cup OptionalKeys(risk_signals, pred.important_features),
     error |-> "",
     classification |-> final.label,
     confidence |-> final.confidence,
     confidence_percentage |-> confidence_percentage(final.confidence),
     high_risk_signals |-> risk_signals,
     important_features |-> formatted_features(pred.important_features),
     explanations |-> <<>>]

\* upload_and_detect(): up is the request, with the text get_document_text
\* extracts from the uploaded file
upload_and_detect(up, o) ==
    LET Err(status, msg, more) ==
            Effect([ErrorResp("/upload", status, msg) EXCEPT !.keys = {"error"} \cup more],
                   NoClf, file_model, file_vectorizer, loads)
        extracted == up.message
    IN  IF ~up.has_file
        THEN Err(400, "No file uploaded", {})
        ELSE IF up.filename = ""
        THEN Err(400, "Empty file name", {})
        ELSE IF up.ext \notin supported_extensions
        THEN Err(400, "Unsupported file format. Supported formats: pdf, docx, doc, jpg, jpeg, png, bmp, tiff", {})
        ELSE IF up.raises                              \* save, read, remove or extraction raises
        THEN Err(500, "[Errno 13] Permission denied", {})
        ELSE IF ~Truthy(extracted)
        THEN Err(400, "Could not extract text from the file.", {"details"})
        ELSE IF Contains(extracted.s, OcrPlaceholder) /\ Lower(up.ext) \in image_extensions
        THEN Effect([NoResp EXCEPT !.endpoint = "/upload", !.status = 200,
                                   !.keys = {"warning", "filename", "text", "suggestion"}],
                    NoClf, file_model, file_vectorizer, loads)
        ELSE LET ready == model_ready_upload
             IN  IF ~ready.ok
                 THEN Effect(ErrorResp("/upload", 500, "Failed to initialize model. Please try again."),
                             NoClf, ready.model, ready.vectorizer, ready.loads)
                 ELSE LET risk == has_high_risk_signals(extracted.s)
                          pred == get_prediction(ready.model, extracted, ready.vectorizer, o)
                          final == override_upload(risk.risk_signals, pred.label, pred.confidence)
                      IN  IF pred.raised
                          THEN Effect(ErrorResp("/upload", 500, pred.error), pred,
                                      ready.model, ready.vectorizer, ready.loads)
                          ELSE Effect(decision_upload(risk.risk_signals, pred, final), pred,
                                      ready.model, ready.vectorizer, ready.loads)

---------------------------------------------------------------------------
(* detect_message.main *)

CliReq(kind, message) ==
    [NoReq EXCEPT !.endpoint = "cli", !.kind = kind, !.message = message]

model_path_error == "Error: Could not load model from models/logistic_regression_model.pkl"

\* what main prints for a decision (lines 142-162, 206-231); the label is
\* printed in upper case
decision_cli(risk_signals, pred, final) ==
    [endpoint |-> "cli", status |-> 0, crashed |-> FALSE,
     keys |-> {"message", "classification", "confidence"}
              \cup OptionalKeys(risk_signals, pred.important_features),
     error |-> "",
     classification |-> final.label,
     confidence |-> final.confidence,
     confidence_percentage |-> confidence_percentage(final.confidence),
     high_risk_signals |-> risk_signals,
     important_features |-> formatted_features(pred.important_features),
     explanations |-> <<>>]

\* lines 130-139 and 194-203: the classification of one message by the CLI;
\* in_try tells whether the call is inside the try of the interactive loop
classify_cli(message, o, model, vectorizer, in_try) ==
    LET risk == has_high_risk_signals(message.s)
        pred == get_prediction(model, message, vectorizer, o)
        final == override_cli(risk.risk_signals, pred.label, pred.confidence)
    IN  IF pred.raised
        THEN [resp |-> IF in_try
                       THEN ErrorResp("cli", 0, "Error processing message: " \o pred.error)
                       ELSE [NoResp EXCEPT !.endpoint = "cli", !.crashed = TRUE,
                                           !.error = pred.error],
              clf |-> pred]
        ELSE [resp |-> decision_cli(risk.risk_signals, pred, final), clf |-> pred]

---------------------------------------------------------------------------
(* Inputs *)

\* what a JSON "message" can be
Messages ==
    { PyStr(t) : t \in Texts \cup {""} }
    \cup {PyInt(0), PyInt(123), PyNone, PyList(0), PyList(2)}

\* P(scam) in per-mille for each sign of the decision score; a score too
\* small for the floating-point sigmoid gives 500 whatever its sign
Probabilities(score) ==
    CASE score < 0 -> {100, 250, 400, 500}
      [] score = 0 -> {500}
      [] score > 0 -> {500, 600, 750, 900}

Outcomes ==
    { [score |-> sc, p_scam |-> p] :
        sc \in {-1, 0, 1}, p \in {100, 250, 400, 500, 600, 750, 900} }

ArtifactOutcomes == { o \in Outcomes : o.p_scam \in Probabilities(o.score) }

\* what the classifier can compute for a message that reaches it; a
\* message that is no text or is empty never does
OutcomesFor(message) ==
    IF message.type = "str" /\ Truthy(message)
    THEN ArtifactOutcomes
    ELSE { o \in ArtifactOutcomes : o.score = 0 }

DetectRequests ==
    { DetectReq(k, PyNone, FALSE) : k \in {"bad_json", "no_json", "other"} }
    \cup { DetectReq("message", m, FALSE) : m \in Messages }
    \cup { DetectReq("file", PyStr(""), r) : r \in BOOLEAN }
    \cup { DetectReq("file", PyStr(RiskyText), FALSE) }

UploadRequests ==
    { UploadReq(FALSE, "", "", FALSE, PyStr("")),
      UploadReq(TRUE, "", "", FALSE, PyStr("")),
      UploadReq(TRUE, "a.exe", "exe", FALSE, PyStr("")),
      UploadReq(TRUE, "a.pdf", "pdf", TRUE, PyStr("")),
      UploadReq(TRUE, "a.pdf", "pdf", FALSE, PyStr("")),
      UploadReq(TRUE, "a.pdf", "pdf", FALSE, PyStr(OcrPlaceholder)),
      UploadReq(TRUE, "a.png", "png", FALSE, PyStr(OcrPlaceholder)) }
    \cup { UploadReq(TRUE, "a.pdf", "pdf", FALSE, PyStr(t)) : t \in Texts }

\* --message of the command line: absent, or a string
CliArguments == {PyNone} \cup { PyStr(t) : t \in Texts \cup {""} }

\* what the user types at the prompt
CliInputs == { PyStr(t) : t \in Texts \cup {"", "EXIT", "quit"} }

---------------------------------------------------------------------------
(* The WSGI process: wsgi.py, api.initialize_models,                       *)
(* file_api.register_file_blueprint and the two request handlers           *)

ServerIdle ==
    /\ api_model = None /\ api_vectorizer = None
    /\ wsgi_model = Unbound /\ wsgi_vectorizer = Unbound
    /\ file_model = None /\ file_vectorizer = None
    /\ success = FALSE

CliIdle == cli_model = Unbound /\ cli_vectorizer = Unbound

RulesIdle == pieces = <<>> /\ scan = NoScan

\* what the normalizer study records: the input, the options, and what
\* preprocess_text returned for the input and then for its own output
NoNorm == [input |-> PyNone, remove_stopwords |-> TRUE, lemmatize |-> TRUE,
           once |-> [raised |-> "", text |-> "", tokens |-> <<>>],
           twice |-> [raised |-> "", text |-> "", tokens |-> <<>>]]

TextIdle == norm = NoNorm

\* the studies of the threaded server, of lightweight_ocr and of LogisticModel
\* have not started
StudyIdle == expansion = <<>> /\ threads = <<>> /\ tmp = <<>> /\ ocr = <<>> /\ lm = <<>>

InitWsgi ==
    /\ program = "wsgi" /\ pc = "import"
    /\ bundle \in Bundles
    /\ resources \in Deployments
    /\ ServerIdle /\ CliIdle /\ RulesIdle /\ TextIdle /\ StudyIdle
    /\ loads = 0 /\ req = NoReq /\ clf = NoClf /\ resp = NoResp

serverVars == <<api_model, api_vectorizer, wsgi_model, wsgi_vectorizer, success,
                file_model, file_vectorizer>>
cliVars == <<cli_model, cli_vectorizer>>
rulesVars == <<pieces, scan>>
ioVars == <<req, clf, resp>>
textVars == <<resources, norm>>
studyVars == <<expansion, threads, tmp, ocr, lm>>

\* wsgi.py 32: from api import app, initialize_models, model, vectorizer
\* binds the module's own names to the values api's globals have now
WsgiImport ==
    /\ program = "wsgi" /\ pc = "import"
    /\ wsgi_model' = api_model
    /\ wsgi_vectorizer' = api_vectorizer
    /\ pc' = "initialize_models"
    /\ UNCHANGED <<program, bundle, api_model, api_vectorizer, success, file_model,
                   file_vectorizer, loads>>
    /\ UNCHANGED <<cliVars, rulesVars, ioVars>>
    /\ UNCHANGED textVars
    /\ UNCHANGED studyVars

\* api.initialize_models(): the globals after it, its result and the load count
initialize_models ==
    IF ~bundle.exists
    THEN [result |-> FALSE, model |-> api_model, vectorizer |-> api_vectorizer,
          loads |-> loads]
    ELSE LET l == load_model(bundle)
         IN  [result |-> l.model # None /\ l.vectorizer # None,
              model |-> l.model, vectorizer |-> l.vectorizer, loads |-> loads + 1]

\* wsgi.py 36
InitializeModels ==
    /\ program = "wsgi" /\ pc = "initialize_models"
    /\ LET r == initialize_models
       IN  /\ success' = r.result
           /\ api_model' = r.model
           /\ api_vectorizer' = r.vectorizer
           /\ loads' = r.loads
    /\ pc' = "register_file_blueprint"
    /\ UNCHANGED <<program, bundle, wsgi_model, wsgi_vectorizer, file_model, file_vectorizer>>
    /\ UNCHANGED <<cliVars, rulesVars, ioVars>>
    /\ UNCHANGED textVars
    /\ UNCHANGED studyVars

\* file_api.register_file_blueprint(app, loaded_model, loaded_vectorizer)
register_file_blueprint(loaded_model, loaded_vectorizer) ==
    [model |-> loaded_model, vectorizer |-> loaded_vectorizer]

\* wsgi.py 41: register_file_blueprint(app, model, vectorizer) with wsgi's names
RegisterFileBlueprint ==
    /\ program = "wsgi" /\ pc = "register_file_blueprint"
    /\ LET r == register_file_blueprint(wsgi_model, wsgi_vectorizer)
       IN  /\ file_model' = r.model
           /\ file_vectorizer' = r.vectorizer
    /\ pc' = "serving"
    /\ UNCHANGED <<program, bundle, api_model, api_vectorizer, wsgi_model, wsgi_vectorizer,
                   success, loads>>
    /\ UNCHANGED <<cliVars, rulesVars, ioVars>>
    /\ UNCHANGED textVars
    /\ UNCHANGED studyVars

\* POST /detect
Detect ==
    /\ program = "wsgi" /\ pc = "serving"
    /\ \E data \in DetectRequests : \E o \in OutcomesFor(data.message) :
         \E e \in {detect_scam(data, o)} :
             /\ e.loads <= MaxLoads
             /\ req' = data
             /\ resp' = e.resp
             /\ clf' = e.clf
             /\ api_model' = e.model
             /\ api_vectorizer' = e.vectorizer
             /\ loads' = e.loads
    /\ pc' = "responded"
    /\ UNCHANGED <<program, bundle, wsgi_model, wsgi_vectorizer, success, file_model,
                   file_vectorizer>>
    /\ UNCHANGED <<cliVars, rulesVars>>
    /\ UNCHANGED textVars
    /\ UNCHANGED studyVars

\* POST /upload
Upload ==
    /\ program = "wsgi" /\ pc = "serving"
    /\ \E up \in UploadRequests : \E o \in OutcomesFor(up.message) :
         \E e \in {upload_and_detect(up, o)} :
             /\ e.loads <= MaxLoads
             /\ req' = up
             /\ resp' = e.resp
             /\ clf' = e.clf
             /\ file_model' = e.model
             /\ file_vectorizer' = e.vectorizer
             /\ loads' = e.loads
    /\ pc' = "responded"
    /\ UNCHANGED <<program, bundle, api_model, api_vectorizer, wsgi_model,
                   wsgi_vectorizer, success>>
    /\ UNCHANGED <<cliVars, rulesVars>>
    /\ UNCHANGED textVars
    /\ UNCHANGED studyVars

\* the handler has returned: its response is sent and its locals are gone
Respond ==
    /\ program = "wsgi" /\ pc = "responded"
    /\ pc' = "serving"
    /\ req' = NoReq /\ clf' = NoClf /\ resp' = NoResp
    /\ UNCHANGED <<program, bundle, loads>>
    /\ UNCHANGED <<serverVars, cliVars, rulesVars>>
    /\ UNCHANGED textVars
    /\ UNCHANGED studyVars

---------------------------------------------------------------------------
(* The command-line process: detect_message.main *)

InitCli ==
    /\ program = "cli" /\ pc = "main"
    /\ bundle \in Bundles
    /\ resources \in Deployments
    /\ ServerIdle /\ CliIdle /\ RulesIdle /\ TextIdle /\ StudyIdle
    /\ loads = 0 /\ req = NoReq /\ clf = NoClf /\ resp = NoResp

\* main() up to its first prompt: one classification when --message is
\* given (lines 121-162), else the start of the interactive mode (163-180)
CliMain ==
    /\ program = "cli" /\ pc = "main"
    /\ \E arg \in CliArguments : \E o \in OutcomesFor(arg) :
         LET l == load_model(bundle)
         IN  /\ cli_model' = l.model
             /\ cli_vectorizer' = l.vectorizer
             /\ loads' = loads + 1
             /\ req' = CliReq(IF Truthy(arg) THEN "message" ELSE "interactive", arg)
             /\ IF l.model = None
                THEN /\ resp' = ErrorResp("cli", 0, model_path_error)
                     /\ clf' = NoClf
                     /\ pc' = "exited"
                ELSE IF Truthy(arg)
                THEN \E c \in {classify_cli(arg, o, l.model, l.vectorizer, FALSE)} :
                         /\ resp' = c.resp
                         /\ clf' = c.clf
                         /\ pc' = "exited"
                ELSE /\ resp' = [NoResp EXCEPT !.endpoint = "cli", !.keys = {"banner"}]
                     /\ clf' = NoClf
                     /\ pc' = "prompt"
    /\ UNCHANGED <<program, bundle>>
    /\ UNCHANGED <<serverVars, rulesVars>>
    /\ UNCHANGED textVars
    /\ UNCHANGED studyVars

\* one round of the interactive loop (lines 184-234)
CliPrompt ==
    /\ program = "cli" /\ pc = "prompt"
    /\ \E user_input \in CliInputs : \E o \in OutcomesFor(user_input) :
         /\ req' = CliReq("input", user_input)
         /\ IF Lower(user_input.s) \in {"quit", "exit", ""}
            THEN /\ resp' = [NoResp EXCEPT !.endpoint = "cli", !.keys = {"goodbye"}]
                 /\ clf' = NoClf
                 /\ pc' = "exited"
            ELSE \E c \in {classify_cli(user_input, o, cli_model, cli_vectorizer, TRUE)} :
                     /\ resp' = c.resp
                     /\ clf' = c.clf
                     /\ pc' = "printed"
    /\ UNCHANGED <<program, bundle, loads>>
    /\ UNCHANGED <<serverVars, cliVars, rulesVars>>
    /\ UNCHANGED textVars
    /\ UNCHANGED studyVars

\* the loop comes back to the prompt (line 184)
CliLoop ==
    /\ program = "cli" /\ pc = "printed"
    /\ pc' = "prompt"
    /\ req' = NoReq /\ clf' = NoClf /\ resp' = NoResp
    /\ UNCHANGED <<program, bundle, loads>>
    /\ UNCHANGED <<serverVars, cliVars, rulesVars>>
    /\ UNCHANGED textVars
    /\ UNCHANGED studyVars

\* KeyboardInterrupt or EOFError at the prompt (lines 236-239)
CliEndOfInput ==
    /\ program = "cli" /\ pc = "prompt"
    /\ req' = CliReq("eof", PyNone)
    /\ resp' = [NoResp EXCEPT !.endpoint = "cli", !.keys = {"goodbye"}]
    /\ clf' = NoClf
    /\ pc' = "exited"
    /\ UNCHANGED <<program, bundle, loads>>
    /\ UNCHANGED <<serverVars, cliVars, rulesVars>>
    /\ UNCHANGED textVars
    /\ UNCHANGED studyVars

Init == InitWsgi \/ InitCli

Next ==
    \/ WsgiImport
    \/ InitializeModels
    \/ RegisterFileBlueprint
    \/ Detect
    \/ Upload
    \/ Respond
    \/ CliMain
    \/ CliPrompt
    \/ CliLoop
    \/ CliEndOfInput

Spec == Init /\ [][Next]_vars

---------------------------------------------------------------------------
(* The rule engine on composed messages *)

\* the pieces a message is composed of
Pieces ==
    {"JOB ", "pay ", Rupee, "rs", "500", "50", "work from home ", "no interview",
     "send ", "otp", "registration fee ", "University ",
     "xxxxxxxxxxxxxxxxxxxxxxxxxxxxxxx", "\n"}

RECURSIVE Concat(_)
Concat(ps) == IF ps = <<>> THEN "" ELSE Head(ps) \o Concat(Tail(ps))

InitRules ==
    /\ program = "rules" /\ pc = "compose"
    /\ bundle = [exists |-> FALSE, dict |-> FALSE, model |-> FALSE, vectorizer |-> FALSE]
    /\ resources = [punkt |-> TRUE, stopwords |-> TRUE, wordnet |-> TRUE]
    /\ ServerIdle /\ CliIdle /\ RulesIdle /\ TextIdle /\ StudyIdle
    /\ loads = 0 /\ req = NoReq /\ clf = NoClf /\ resp = NoResp

\* the sender adds a piece to the message
Compose ==
    /\ program = "rules" /\ pc = "compose"
    /\ Len(pieces) < MaxPieces
    /\ \E p \in Pieces : pieces' = Append(pieces, p)
    /\ UNCHANGED <<program, pc, bundle, loads, scan>>
    /\ UNCHANGED <<serverVars, cliVars, ioVars>>
    /\ UNCHANGED textVars
    /\ UNCHANGED studyVars

\* risk_signals = has_high_risk_signals(message)
Scan ==
    /\ program = "rules" /\ pc = "compose"
    /\ scan' = has_high_risk_signals(Concat(pieces))
    /\ pc' = "scanned"
    /\ UNCHANGED <<program, bundle, loads, pieces>>
    /\ UNCHANGED <<serverVars, cliVars, ioVars>>
    /\ UNCHANGED textVars
    /\ UNCHANGED studyVars

NextRules == Compose \/ Scan

SpecRules == InitRules /\ [][NextRules]_vars

---------------------------------------------------------------------------
(* The normalizer on composed texts and on values that are no text *)

TextPieces ==
    {"Don't ", "class ", "987 or ", "654 3210", "men ", Copyright \o " !? ",
     "caf" \o EAcute \o " " \o Rupee \o "500 ", "e-mail "}

NonTextValues == {PyInt(123), PyNone, PyList(2)}

InitText ==
    /\ program = "text" /\ pc = "compose"
    /\ bundle = [exists |-> FALSE, dict |-> FALSE, model |-> FALSE, vectorizer |-> FALSE]
    /\ resources \in ResourceConfigs
    /\ ServerIdle /\ CliIdle /\ RulesIdle /\ TextIdle /\ StudyIdle
    /\ loads = 0 /\ req = NoReq /\ clf = NoClf /\ resp = NoResp

\* the caller adds a piece to the text
ComposeText ==
    /\ program = "text" /\ pc = "compose"
    /\ Len(pieces) < MaxWords
    /\ \E p \in TextPieces : pieces' = Append(pieces, p)
    /\ UNCHANGED <<program, pc, bundle, loads, scan>>
    /\ UNCHANGED <<serverVars, cliVars, ioVars, textVars>>
    /\ UNCHANGED studyVars

\* data_prep.preprocess_text(text, remove_stopwords, lemmatize) for the text
\* composed, or for a value that is no text
Normalize ==
    /\ program = "text" /\ pc = "compose"
    /\ \E text \in {PyStr(Concat(pieces))} \cup (IF pieces = <<>> THEN NonTextValues ELSE {}) :
       \E remove_stopwords \in BOOLEAN, lemmatize \in BOOLEAN :
           norm' = [norm EXCEPT !.input = text,
                                !.remove_stopwords = remove_stopwords,
                                !.lemmatize = lemmatize,
                                !.once = preprocess_text(text, resources, remove_stopwords,
                                                         lemmatize)]
    /\ pc' = "normalized"
    /\ UNCHANGED <<program, bundle, loads, pieces, scan, resources>>
    /\ UNCHANGED <<serverVars, cliVars, ioVars>>
    /\ UNCHANGED studyVars

\* preprocess_text applied to the text it returned
Renormalize ==
    /\ program = "text" /\ pc = "normalized"
    /\ norm.once.raised = ""
    /\ norm' = [norm EXCEPT !.twice = preprocess_text(PyStr(norm.once.text), resources,
                                                      norm.remove_stopwords, norm.lemmatize)]
    /\ pc' = "renormalized"
    /\ UNCHANGED <<program, bundle, loads, pieces, scan, resources>>
    /\ UNCHANGED <<serverVars, cliVars, ioVars>>
    /\ UNCHANGED studyVars

NextText == ComposeText \/ Normalize \/ Renormalize

SpecText == InitText /\ [][NextText]_vars

---------------------------------------------------------------------------
(* The normalizer on texts composed of contractions and short words *)

WordParts == {"won", "can", "do", "n", "'t", "'s", "'ll ", "s "}

InitWords ==
    /\ program = "words" /\ pc = "compose"
    /\ bundle = [exists |-> FALSE, dict |-> FALSE, model |-> FALSE, vectorizer |-> FALSE]
    /\ resources \in Deployments
    /\ ServerIdle /\ CliIdle /\ RulesIdle /\ TextIdle
    /\ loads = 0 /\ req = NoReq /\ clf = NoClf /\ resp = NoResp
    /\ expansion = [before |-> "", after |-> ""]
    /\ threads = <<>> /\ tmp = <<>> /\ ocr = <<>> /\ lm = <<>>

\* the caller adds a part to the text
ComposeWords ==
    /\ program = "words" /\ pc = "compose"
    /\ Len(pieces) < MaxParts
    /\ \E p \in WordParts : pieces' = Append(pieces, p)
    /\ UNCHANGED <<program, pc, bundle, loads, scan>>
    /\ UNCHANGED <<serverVars, cliVars, ioVars, textVars, studyVars>>

\* data_prep.preprocess_text(text, remove_stopwords, lemmatize) for the text
\* composed, with the text it holds before and after the loop of lines 148-149
NormalizeWords ==
    /\ program = "words" /\ pc = "compose"
    /\ \E text \in {Concat(pieces)} :
       \E remove_stopwords \in BOOLEAN, lemmatize \in BOOLEAN :
           /\ norm' = [norm EXCEPT !.input = PyStr(text),
                                   !.remove_stopwords = remove_stopwords,
                                   !.lemmatize = lemmatize,
                                   !.once = preprocess_text(PyStr(text), resources,
                                                            remove_stopwords, lemmatize)]
           /\ expansion' = [before |-> before_contractions(text),
                            after |-> expanded_text(text)]
    /\ pc' = "normalized"
    /\ UNCHANGED <<program, bundle, loads, pieces, scan, resources>>
    /\ UNCHANGED <<serverVars, cliVars, ioVars>>
    /\ UNCHANGED <<threads, tmp, ocr, lm>>

NextWords == ComposeWords \/ NormalizeWords

SpecWords == InitWords /\ [][NextWords]_vars

---------------------------------------------------------------------------
(* The threaded server: Flask's built-in server (run_api.run_development,  *)
(* api.py 313) handles every request in a thread of its own, all of them   *)
(* in one process with one working directory and one set of module globals *)

\* the threads that handle requests
Workers == {"w1", "w2"}

ServedTexts == {RiskyText, PlainText}

\* an uploaded document: its bytes (named) and the text get_document_text
\* extracts from them
Documents == { [bytes |-> "risky.bin", text |-> RiskyText],
               [bytes |-> "plain.bin", text |-> PlainText] }

ServedExts == {"pdf", "docx"}

\* what the classifier of the loaded artifact computes for each message
ServedArtifacts ==
    [ServedTexts -> { [score |-> -1, p_scam |-> 400], [score |-> -1, p_scam |-> 100],
                      [score |-> 1, p_scam |-> 750] }]

\* a file of the working directory
NoFile == [exists |-> FALSE, bytes |-> ""]
FileOf(bytes) == [exists |-> TRUE, bytes |-> bytes]

\* file_api.py 80 for a pdf or docx document
get_document_text(file_content, ext) ==
    (CHOOSE d \in Documents : d.bytes = file_content).text

\* file_api.py 69: the pid is the same for every thread of the process
temp_path(ext) == ext

\* the locals of a thread that handles no request
IdleThread == [pc |-> "idle", endpoint |-> "", ext |-> "", upload |-> "", file_content |-> "",
               text |-> "", resp |-> NoResp]

\* the signals of the request with a module-level list shared by the threads
serve_signals_shared(w, text) ==
    IF \E v \in Workers \ {w} : threads[v].pc = "done"
    THEN (CHOOSE r \in { threads[v].resp : v \in { u \in Workers \ {w} : threads[u].pc = "done" } } :
              TRUE).high_risk_signals
    ELSE has_high_risk_signals(text).risk_signals

\* api.py 206, file_api.py 114: risk_signals is a local of the call
serve_signals(w, text) == has_high_risk_signals(text).risk_signals

\* the process after wsgi.py or run_development has run with a complete
\* artifact: api's globals hold the pair, file_api's hold what
\* register_file_blueprint was given
InitServe ==
    /\ program = "server" /\ pc = "serving"
    /\ \E a \in ServedArtifacts :
         bundle = [exists |-> TRUE, dict |-> TRUE, model |-> TRUE, vectorizer |-> TRUE,
                   outcomes |-> a]
    /\ resources = [punkt |-> TRUE, stopwords |-> TRUE, wordnet |-> TRUE]
    /\ api_model = TheModel /\ api_vectorizer = TheVectorizer
    /\ wsgi_model = None /\ wsgi_vectorizer = None
    /\ file_model = None /\ file_vectorizer = None
    /\ success = TRUE
    /\ CliIdle /\ RulesIdle /\ TextIdle
    /\ loads = 1 /\ req = NoReq /\ clf = NoClf /\ resp = NoResp
    /\ threads = [w \in Workers |-> IdleThread]
    /\ tmp = [e \in ServedExts |-> NoFile]
    /\ expansion = <<>> /\ ocr = <<>> /\ lm = <<>>

serveFrame ==
    <<program, pc, bundle, api_model, api_vectorizer, wsgi_model, wsgi_vectorizer, success,
      cli_model, cli_vectorizer, req, clf, resp, pieces, scan, resources, norm,
      expansion, ocr, lm>>

\* POST /detect arrives at thread w: api.py 157-199
DetectBegin(w) ==
    /\ program = "server" /\ threads[w].pc = "idle"
    /\ \E t \in ServedTexts :
         threads' = [threads EXCEPT ![w] =
            IF api_model = None
            THEN [IdleThread EXCEPT !.pc = "done", !.endpoint = "/detect", !.text = t,
                    !.resp = ErrorResp("/detect", 500, "Model not initialized. Please try again.")]
            ELSE [IdleThread EXCEPT !.pc = "classify", !.endpoint = "/detect", !.text = t]]
    /\ UNCHANGED <<file_model, file_vectorizer, loads, tmp>>
    /\ UNCHANGED serveFrame

\* api.py 205-283: signals, prediction with the globals, override, response
DetectClassify(w) ==
    /\ program = "server" /\ threads[w].pc = "classify" /\ threads[w].endpoint = "/detect"
    /\ LET text == threads[w].text
           risk_signals == serve_signals(w, text)
           pred == get_prediction(api_model, PyStr(text), api_vectorizer, bundle.outcomes[text])
           final == override_detect(risk_signals, pred.label, pred.confidence)
       IN  threads' = [threads EXCEPT ![w].pc = "done",
                                      ![w].resp = IF pred.raised
                                                  THEN ErrorResp("/detect", 500, pred.error)
                                                  ELSE decision_detect(text, risk_signals, pred, final)]
    /\ UNCHANGED <<file_model, file_vectorizer, loads, tmp>>
    /\ UNCHANGED serveFrame

\* POST /upload arrives at thread w: file_api.py 46-70, up to file.save
UploadSave(w) ==
    /\ program = "server" /\ threads[w].pc = "idle"
    /\ \E d \in Documents, e \in ServedExts :
         /\ tmp' = [tmp EXCEPT ![temp_path(e)] = FileOf(d.bytes)]
         /\ threads' = [threads EXCEPT ![w] =
                [IdleThread EXCEPT !.pc = "read", !.endpoint = "/upload", !.ext = e,
                                   !.upload = d.bytes]]
    /\ UNCHANGED <<file_model, file_vectorizer, loads>>
    /\ UNCHANGED serveFrame

\* file_api.py 73-74: open(temp_path, 'rb') and read; a missing file raises
\* FileNotFoundError, answered by the except of line 150
UploadRead(w) ==
    /\ program = "server" /\ threads[w].pc = "read"
    /\ LET file == tmp[temp_path(threads[w].ext)]
       IN  threads' = [threads EXCEPT ![w] =
              IF file.exists
              THEN [@ EXCEPT !.pc = "remove", !.file_content = file.bytes]
              ELSE [@ EXCEPT !.pc = "done",
                             !.resp = ErrorResp("/upload", 500, "[Errno 2] No such file or directory")]]
    /\ UNCHANGED <<file_model, file_vectorizer, loads, tmp>>
    /\ UNCHANGED serveFrame

\* file_api.py 77-101: os.remove(temp_path), then the text of the bytes read
UploadRemove(w) ==
    /\ program = "server" /\ threads[w].pc = "remove"
    /\ LET path == temp_path(threads[w].ext)
       IN  IF tmp[path].exists
           THEN /\ tmp' = [tmp EXCEPT ![path] = NoFile]
                /\ threads' = [threads EXCEPT ![w].pc = "load",
                                  ![w].text = get_document_text(threads[w].file_content,
                                                                threads[w].ext)]
           ELSE /\ tmp' = tmp
                /\ threads' = [threads EXCEPT ![w].pc = "done",
                                  ![w].resp = ErrorResp("/upload", 500,
                                                        "[Errno 2] No such file or directory")]
    /\ UNCHANGED <<file_model, file_vectorizer, loads>>
    /\ UNCHANGED serveFrame

\* file_api.py 104-111: the globals are loaded by the request that finds
\* them missing
UploadLoad(w) ==
    /\ program = "server" /\ threads[w].pc = "load"
    /\ LET ready == model_ready_upload
       IN  /\ file_model' = ready.model
           /\ file_vectorizer' = ready.vectorizer
           /\ loads' = ready.loads
           /\ threads' = [threads EXCEPT ![w] =
                 IF ready.ok
                 THEN [@ EXCEPT !.pc = "classify"]
                 ELSE [@ EXCEPT !.pc = "done",
                                !.resp = ErrorResp("/upload", 500,
                                             "Failed to initialize model. Please try again.")]]
    /\ UNCHANGED tmp
    /\ UNCHANGED serveFrame

\* file_api.py 113-148
UploadClassify(w) ==
    /\ program = "server" /\ threads[w].pc = "classify" /\ threads[w].endpoint = "/upload"
    /\ LET text == threads[w].text
           risk_signals == serve_signals(w, text)
           pred == get_prediction(file_model, PyStr(text), file_vectorizer, bundle.outcomes[text])
           final == override_upload(risk_signals, pred.label, pred.confidence)
       IN  threads' = [threads EXCEPT ![w].pc = "done",
                                      ![w].resp = IF pred.raised
                                                  THEN ErrorResp("/upload", 500, pred.error)
                                                  ELSE decision_upload(risk_signals, pred, final)]
    /\ UNCHANGED <<file_model, file_vectorizer, loads, tmp>>
    /\ UNCHANGED serveFrame

\* the handler returns: the response is sent, the thread takes the next request
Return(w) ==
    /\ program = "server" /\ threads[w].pc = "done"
    /\ threads' = [threads EXCEPT ![w] = IdleThread]
    /\ UNCHANGED <<file_model, file_vectorizer, loads, tmp>>
    /\ UNCHANGED serveFrame

NextServe ==
    \E w \in Workers :
        \/ DetectBegin(w)
        \/ DetectClassify(w)
        \/ UploadSave(w)
        \/ UploadRead(w)
        \/ UploadRemove(w)
        \/ UploadLoad(w)
        \/ UploadClassify(w)
        \/ Return(w)

SpecServe == InitServe /\ [][NextServe]_vars

---------------------------------------------------------------------------
(* lightweight_ocr: the cache directory, OCR_METRICS and                   *)
(* extract_text_from_image. Time is counted in days (86400 s).             *)

\* image files: b.png holds the bytes of a.png, gone.png does not exist
Images ==
    { [path |-> "a.png", exists |-> TRUE, bytes |-> "A", info |-> "640x480 PNG"],
      [path |-> "b.png", exists |-> TRUE, bytes |-> "A", info |-> "640x480 PNG"],
      [path |-> "c.jpg", exists |-> TRUE, bytes |-> "C", info |-> "800x600 JPEG"],
      [path |-> "gone.png", exists |-> FALSE, bytes |-> "", info |-> "0x0 unknown"] }

\* get_image_hash: the digest of the bytes, or of the path when the file
\* cannot be read
get_image_hash(image) ==
    IF image.exists THEN "md5 of bytes " \o image.bytes ELSE "md5 of path " \o image.path

Hashes == { get_image_hash(image) : image \in Images }

\* what the service answers to a request, or how the request ends
ApiAnswers ==
    { [kind |-> "parsed", text |-> "pay a registration fee"],
      [kind |-> "parsed", text |-> "pay a registratlon fee"],
      [kind |-> "parsed", text |-> ""],
      [kind |-> "errored", text |-> "API processing error: E216"],
      [kind |-> "no_results", text |-> "No text found in the image"],
      [kind |-> "http_error", text |-> "API request failed with status 403: Forbidden"],
      [kind |-> "timeout", text |-> "API request timed out after 30 seconds"],
      [kind |-> "prepare_failed", text |-> "Error during OCR API request: cannot identify image file"] }

NoEntry == [exists |-> FALSE, text |-> "", timestamp |-> 0]

\* lines 64-65 with an entry as old as the TTL still served
is_fresh_inclusive(now, timestamp, cache_ttl) == now - timestamp <= cache_ttl

\* lines 64-65: time.time() - timestamp < cache_ttl * 86400
is_fresh(now, timestamp, cache_ttl) == now - timestamp < cache_ttl

\* get_cached_result(image_hash): the text, or None (""), and whether a hit
\* was counted
get_cached_result(o, image_hash) ==
    LET entry == o.cache[image_hash]
    IN  IF entry.exists /\ is_fresh(o.now, entry.timestamp, o.cache_ttl)
        THEN [hit |-> TRUE, text |-> entry.text]
        ELSE [hit |-> FALSE, text |-> ""]

\* extract_text_with_api(image_path): (success, text), what it adds to
\* OCR_METRICS, and whether it got as far as the request of lines 182-188
extract_text_with_api(o, image, answer) ==
    LET Result(ok, text, requested, succeeded, errors) ==
            [success |-> ok, text |-> text, requested |-> requested,
             api_calls |-> IF requested THEN 1 ELSE 0,
             successful_extractions |-> IF succeeded THEN 1 ELSE 0,
             errors |-> IF errors THEN 1 ELSE 0]
    IN  IF o.api_disabled THEN Result(FALSE, "OCR API is disabled", FALSE, FALSE, FALSE)
        ELSE IF ~image.exists THEN Result(FALSE, "Image file not found", FALSE, FALSE, FALSE)
        ELSE CASE answer.kind = "prepare_failed" -> Result(FALSE, answer.text, FALSE, FALSE, TRUE)
               [] answer.kind = "parsed" -> Result(TRUE, answer.text, TRUE, TRUE, FALSE)
               [] answer.kind = "no_results" -> Result(FALSE, answer.text, TRUE, FALSE, FALSE)
               [] answer.kind \in {"errored", "http_error", "timeout"} ->
                      Result(FALSE, answer.text, TRUE, FALSE, TRUE)

\* lines 266-270
fallback_text(image) ==
    "[Image analysis: " \o image.info \o " image. No text detected or OCR service "
    \o "unavailable. Image metadata has been analyzed instead.]"

\* line 259 without the test of the text
should_cache_any(ok, text) == ok

\* line 259: if success and text
should_cache(ok, text) == ok /\ text # ""

\* extract_text_from_image(image_path): the module's state after the call;
\* written tells whether save_to_cache could write its file
extract_text_from_image(o, image, answer, written) ==
    LET image_hash == get_image_hash(image)
        cached == get_cached_result(o, image_hash)
        hits == o.metrics.cache_hits + (IF cached.hit THEN 1 ELSE 0)
        Call(source, returned, api_tried, requested) ==
            [image |-> image.path, image_hash |-> image_hash, entry |-> o.cache[image_hash],
             now |-> o.now, source |-> source, returned |-> returned,
             api_tried |-> api_tried, requested |-> requested, metrics |-> o.metrics]
    IN  IF cached.text # ""
        THEN [o EXCEPT !.metrics.cache_hits = hits,
                       !.calls = @ + 1,
                       !.last = Call("cache", cached.text, FALSE, FALSE)]
        ELSE LET api == extract_text_with_api(o, image, answer)
                 metrics == [o.metrics EXCEPT
                               !.cache_hits = hits,
                               !.api_calls = @ + api.api_calls,
                               !.successful_extractions = @ + api.successful_extractions,
                               !.errors = @ + api.errors]
                 extractions == IF api.success
                                THEN o.extractions \cup {<<image_hash, api.text>>}
                                ELSE o.extractions
             IN  IF should_cache(api.success, api.text)
                 THEN [o EXCEPT !.metrics = metrics,
                                !.cache[image_hash] =
                                    IF written
                                    THEN [exists |-> TRUE, text |-> api.text, timestamp |-> o.now]
                                    ELSE @,
                                !.extractions = extractions,
                                !.calls = @ + 1,
                                !.last = Call("api", api.text, TRUE, api.requested)]
                 ELSE [o EXCEPT !.metrics = [metrics EXCEPT !.fallback_used = @ + 1],
                                !.extractions = extractions,
                                !.calls = @ + 1,
                                !.last = Call("fallback", fallback_text(image), TRUE,
                                              api.requested)]

NoCall == [image |-> "", image_hash |-> "", entry |-> NoEntry, now |-> 0, source |-> "",
           returned |-> "", api_tried |-> FALSE, requested |-> FALSE,
           metrics |-> [api_calls |-> 0, cache_hits |-> 0, fallback_used |-> 0,
                        successful_extractions |-> 0, errors |-> 0]]

\* the module after its import (lines 28-41), with an empty cache directory;
\* OCR_CACHE_TTL_DAYS and OCR_API_DISABLED are set in the environment
InitOcr ==
    /\ program = "ocr" /\ pc = "imported"
    /\ bundle = [exists |-> FALSE, dict |-> FALSE, model |-> FALSE, vectorizer |-> FALSE]
    /\ resources = [punkt |-> TRUE, stopwords |-> TRUE, wordnet |-> TRUE]
    /\ ServerIdle /\ CliIdle /\ RulesIdle /\ TextIdle
    /\ loads = 0 /\ req = NoReq /\ clf = NoClf /\ resp = NoResp
    /\ \E cache_ttl \in {1, 2}, api_disabled \in BOOLEAN :
         ocr = [cache |-> [h \in Hashes |-> NoEntry],
                metrics |-> NoCall.metrics,
                now |-> 0, cache_ttl |-> cache_ttl, api_disabled |-> api_disabled,
                extractions |-> {}, calls |-> 0, last |-> NoCall]
    /\ expansion = <<>> /\ threads = <<>> /\ tmp = <<>> /\ lm = <<>>

ocrFrame ==
    <<program, pc, bundle, loads, pieces, scan, serverVars, cliVars, ioVars, textVars,
      expansion, threads, tmp, lm>>

\* a caller extracts the text of an image
ExtractTextFromImage ==
    /\ program = "ocr"
    /\ ocr.calls < MaxCalls
    /\ \E image \in Images, answer \in ApiAnswers, written \in BOOLEAN :
         ocr' = extract_text_from_image(ocr, image, answer, written)
    /\ UNCHANGED ocrFrame

\* a day passes
Tick ==
    /\ program = "ocr"
    /\ ocr.now < MaxClock
    /\ ocr' = [ocr EXCEPT !.now = @ + 1]
    /\ UNCHANGED ocrFrame

NextOcr == ExtractTextFromImage \/ Tick

SpecOcr == InitOcr /\ [][NextOcr]_vars

---------------------------------------------------------------------------
(* logistic_model.LogisticModel: one instance and the files it saves to    *)
(* and loads from                                                          *)

\* the training sets handed to train_logistic_regression; the vectorizer
\* cannot be fitted to the empty one
TrainingSets == {"train_data", "val_data", "empty"}

Fitted(what, data) == what \o " fitted to " \o data

\* the files of the study: what pickle.load gives for each path
ModelFiles ==
    [ scam_detector |-> [exists |-> TRUE, dict |-> TRUE,
                         model |-> Fitted("LogisticRegression", "shipped"),
                         vectorizer |-> Fitted("TfidfVectorizer", "shipped")],
      no_vectorizer |-> [exists |-> TRUE, dict |-> TRUE,
                         model |-> Fitted("LogisticRegression", "partial"),
                         vectorizer |-> None],
      no_model      |-> [exists |-> TRUE, dict |-> TRUE,
                         model |-> None,
                         vectorizer |-> Fitted("TfidfVectorizer", "partial")],
      not_a_dict    |-> [exists |-> TRUE, dict |-> FALSE, model |-> None,
                         vectorizer |-> None],
      absent        |-> [exists |-> FALSE, dict |-> FALSE, model |-> None,
                         vectorizer |-> None],
      saved         |-> [exists |-> FALSE, dict |-> FALSE, model |-> None,
                         vectorizer |-> None] ]

Paths == DOMAIN ModelFiles

\* the record of a method call: the attributes before it and what it
\* returned or raised
MethodCall(self, op, arg, returned, raised) ==
    [op |-> op, arg |-> arg, model |-> self.model, vectorizer |-> self.vectorizer,
     returned |-> returned, raised |-> raised]

\* lines 13-17
NewLogisticModel ==
    [model |-> None, vectorizer |-> None, performance |-> {},
     files |-> ModelFiles, calls |-> 0,
     last |-> [op |-> "__init__", arg |-> "", model |-> None, vectorizer |-> None,
               returned |-> <<>>, raised |-> ""]]

\* lines 19-36
train_logistic_regression(self, X_train) ==
    IF X_train = "empty"
    THEN [self EXCEPT !.vectorizer = "TfidfVectorizer not fitted",
                      !.calls = @ + 1,
                      !.last = MethodCall(self, "train_logistic_regression", X_train, <<>>,
                                          "ValueError")]
    ELSE [self EXCEPT !.vectorizer = Fitted("TfidfVectorizer", X_train),
                      !.model = Fitted("LogisticRegression", X_train),
                      !.performance = @ \cup {"training_time"},
                      !.calls = @ + 1,
                      !.last = MethodCall(self, "train_logistic_regression", X_train,
                                          <<Fitted("LogisticRegression", X_train),
                                            Fitted("TfidfVectorizer", X_train)>>, "")]

\* the data the object was fitted to
FittedTo(object) ==
    CHOOSE data \in TrainingSets \cup {"shipped", "partial", ""} :
        \/ object \in {Fitted("LogisticRegression", data), Fitted("TfidfVectorizer", data)}
        \/ data = "" /\ \A d \in TrainingSets \cup {"shipped", "partial"} :
                          object \notin {Fitted("LogisticRegression", d),
                                         Fitted("TfidfVectorizer", d)}

\* lines 38-75; the features of a vectorizer fit the model it was trained
\* with
evaluate_model(self) ==
    LET raised == IF self.model = None \/ self.vectorizer = None THEN "ValueError"
                  ELSE IF FittedTo(self.vectorizer) = "" THEN "NotFittedError"
                  ELSE IF FittedTo(self.vectorizer) # FittedTo(self.model) THEN "ValueError"
                  ELSE ""
    IN  [self EXCEPT !.performance =
                         IF raised = ""
                         THEN @ \cup {"accuracy", "precision", "recall", "f1_score",
                                      "confusion_matrix", "inference_time"}
                         ELSE @,
                     !.calls = @ + 1,
                     !.last = MethodCall(self, "evaluate_model", "",
                                         IF raised = "" THEN <<"y_pred", "confidence_scores",
                                                               "metrics">>
                                                        ELSE <<>>,
                                         raised)]

\* lines 77-92
save_model(self, file_path) ==
    IF self.model = None \/ self.vectorizer = None
    THEN [self EXCEPT !.calls = @ + 1,
                      !.last = MethodCall(self, "save_model", file_path, <<>>, "ValueError")]
    ELSE [self EXCEPT !.files[file_path] = [exists |-> TRUE, dict |-> TRUE,
                                            model |-> self.model,
                                            vectorizer |-> self.vectorizer],
                      !.calls = @ + 1,
                      !.last = MethodCall(self, "save_model", file_path, <<>>, "")]

\* lines 94-113
LogisticModel_load_model(self, file_path) ==
    LET file == self.files[file_path]
    IN  IF ~file.exists \/ ~file.dict
        THEN \* open or load_dict.get raises before line 100 has assigned
             [self EXCEPT !.calls = @ + 1,
                          !.last = MethodCall(self, "load_model", file_path,
                                              <<None, None>>, "")]
        ELSE LET loaded == [self EXCEPT !.model = file.model,
                                        !.vectorizer = file.vectorizer,
                                        !.calls = @ + 1]
             IN  IF file.model = None \/ file.vectorizer = None
                 THEN [loaded EXCEPT !.last = MethodCall(self, "load_model", file_path,
                                                         <<None, None>>, "")]
                 ELSE [loaded EXCEPT !.last = MethodCall(self, "load_model", file_path,
                                                         <<file.model, file.vectorizer>>, "")]

InitLogistic ==
    /\ program = "logistic" /\ pc = "constructed"
    /\ bundle = [exists |-> FALSE, dict |-> FALSE, model |-> FALSE, vectorizer |-> FALSE]
    /\ resources = [punkt |-> TRUE, stopwords |-> TRUE, wordnet |-> TRUE]
    /\ ServerIdle /\ CliIdle /\ RulesIdle /\ TextIdle
    /\ loads = 0 /\ req = NoReq /\ clf = NoClf /\ resp = NoResp
    /\ lm = NewLogisticModel
    /\ expansion = <<>> /\ threads = <<>> /\ tmp = <<>> /\ ocr = <<>>

logisticFrame ==
    <<program, pc, bundle, loads, pieces, scan, serverVars, cliVars, ioVars, textVars,
      expansion, threads, tmp, ocr>>

Train ==
    /\ program = "logistic" /\ lm.calls < MaxMethodCalls
    /\ \E X_train \in TrainingSets : lm' = train_logistic_regression(lm, X_train)
    /\ UNCHANGED logisticFrame

Evaluate ==
    /\ program = "logistic" /\ lm.calls < MaxMethodCalls
    /\ lm' = evaluate_model(lm)
    /\ UNCHANGED logisticFrame

Save ==
    /\ program = "logistic" /\ lm.calls < MaxMethodCalls
    /\ lm' = save_model(lm, "saved")
    /\ UNCHANGED logisticFrame

Load ==
    /\ program = "logistic" /\ lm.calls < MaxMethodCalls
    /\ \E file_path \in Paths : lm' = LogisticModel_load_model(lm, file_path)
    /\ UNCHANGED logisticFrame

NextLogistic == Train \/ Evaluate \/ Save \/ Load

SpecLogistic == InitLogistic /\ [][NextLogistic]_vars

---------------------------------------------------------------------------
(* Vocabulary of the properties *)

\* a handler or the CLI has just answered the request req
Answered == pc \in {"responded", "printed", "exited"} /\ req.endpoint # ""

\* get_prediction returned a label and a confidence for the request
Predicted == Answered /\ clf.called /\ ~clf.raised

\* the signal list the rule engine returns for the text of the request
SignalsOfRequest == has_high_risk_signals(req.message.s).risk_signals

OverrideCase == SignalsOfRequest # <<>> /\ clf.label = "real" /\ clf.confidence < 750

IsDecision(r) ==
    /\ {"classification", "confidence"} \subseteq r.keys
    /\ "error" \notin r.keys
    /\ ~r.crashed
    /\ r.classification \in {"scam", "real"}

IsError(r) ==
    /\ "error" \in r.keys
    /\ r.status # 200
    /\ r.keys \cap {"classification", "confidence"} = {}

\* the request carries a text and passes the input checks of its entry point,
\* so that the entry point goes on to classify it
ClassificationRequest(q) ==
    /\ q.message.type = "str" /\ q.message.s # ""
    /\ ~q.raises
    /\ \/ q.endpoint = "/detect" /\ q.kind \in {"message", "file"}
       \/ /\ q.endpoint = "/upload" /\ q.has_file /\ q.filename # ""
          /\ q.ext \in supported_extensions
          /\ ~(Contains(q.message.s, OcrPlaceholder) /\ q.ext \in image_extensions)
       \/ q.endpoint = "cli" /\ q.kind = "message"
       \/ q.endpoint = "cli" /\ q.kind = "input" /\ Lower(q.message.s) \notin {"quit", "exit"}

ModelUnavailableErrors ==
    {"Model not initialized. Please try again.",
     "Failed to initialize model. Please try again.",
     model_path_error}

BundleComplete == bundle.exists /\ bundle.dict /\ bundle.model /\ bundle.vectorizer

---------------------------------------------------------------------------
(* Claims *)

\* C1: in every entry point, when the rule engine returns signals for the
\* message and the classifier says real with a confidence below 0.75, the
\* final decision is scam with confidence max(confidence, 0.85) >= 0.85.
C1_OverrideRule ==
    (Predicted /\ OverrideCase) =>
        /\ IsDecision(resp)
        /\ resp.classification = "scam"
        /\ resp.confidence = Max(clf.confidence, 850)
        /\ resp.confidence >= 850
        /\ resp.confidence_percentage = "85.00%"

C1_Witness ==
    /\ Predicted /\ OverrideCase
    /\ resp.endpoint = "cli" /\ resp.classification = "scam" /\ clf.confidence = 600

\* C2: when the signal list is empty, or the classifier says scam, or its
\* confidence is at least 0.75, the final label and confidence are the
\* classifier's; a scam label is never flipped and the confidence never drops.
C2_OverrideFrame ==
    Predicted =>
        /\ IsDecision(resp)
        /\ ~OverrideCase =>
              resp.classification = clf.label /\ resp.confidence = clf.confidence
        /\ clf.label = "scam" => resp.classification = "scam"
        /\ resp.confidence >= clf.confidence

C2_Witness ==
    /\ Predicted /\ resp.endpoint = "/detect"
    /\ SignalsOfRequest # <<>> /\ clf.label = "real" /\ clf.confidence = 750
    /\ resp.classification = "real" /\ resp.confidence = 750

\* the message composed so far, lowercased
Lowered == Lower(Concat(pieces))

\* the patterns of the table that match the lowercased text
MatchingPatterns(text_lower) ==
    { i \in DOMAIN high_risk_patterns : re_search(high_risk_patterns[i].pattern, text_lower) }

\* the example of the suppression: a payment request on a university portal
LegitExampleSuppressed ==
    /\ MatchingPatterns(Lower(LegitText)) # {}
    /\ has_high_risk_signals(LegitText).risk_signals = <<>>

\* C3: a text with a legitimate-context phrase yields the empty signal list
\* whatever else it contains, and no risk pattern is searched for.
C3_Suppression ==
    /\ (pc = "scanned" /\ ContainsAny(Lowered, legitimate_context_words)) =>
           scan.risk_signals = <<>> /\ scan.searched = <<>>
    /\ LegitExampleSuppressed

C3_Witness ==
    /\ pc = "scanned"
    /\ \E low \in {Lowered} :
         /\ ContainsAny(low, legitimate_context_words)
         /\ MatchingPatterns(low) # {}
    /\ scan.risk_signals = <<>>

\* the position of an explanation in the pattern table
TableIndex(e) == CHOOSE i \in DOMAIN high_risk_patterns : high_risk_patterns[i].explanation = e

\* C4: without a legitimate-context phrase the signal list holds exactly the
\* explanations of the matching patterns, once each, in table order; it is
\* empty when no pattern matches.
C4_SignalsAreTheMatches ==
    pc = "scanned" =>
        \A low \in {Lowered} : \A M \in {MatchingPatterns(low)} :
            ~ContainsAny(low, legitimate_context_words) =>
                LET r == scan.risk_signals
                IN  /\ Len(r) <= 6
                    /\ \A k \in DOMAIN r :
                         \E i \in DOMAIN high_risk_patterns :
                            r[k] = high_risk_patterns[i].explanation
                    /\ \A j, k \in DOMAIN r : j < k => TableIndex(r[j]) < TableIndex(r[k])
                    /\ \A i \in DOMAIN high_risk_patterns :
                         (i \in M) <=> (\E k \in DOMAIN r : r[k] = high_risk_patterns[i].explanation)
                    /\ M = {} => r = <<>>

C4_Witness ==
    /\ pc = "scanned"
    /\ \E low \in {Lowered} :
         /\ ~ContainsAny(low, legitimate_context_words)
         /\ 1 \notin MatchingPatterns(low)
    /\ Len(scan.risk_signals) >= 2

\* C5 as stated: the label is scam exactly when P(scam) >= P(real), also at a
\* tie, and the confidence is the larger probability.
C5_ScamAtTie ==
    Predicted =>
        /\ (clf.label = "scam") <=> (clf.p_scam >= 1000 - clf.p_scam)
        /\ clf.confidence = Max(clf.p_scam, 1000 - clf.p_scam)

\* C5 amended: the label is scam exactly when the decision score is strictly
\* positive, so at score 0 (both probabilities 0.5) it is real; a scam label
\* never has P(scam) < P(real) nor a real label P(real) < P(scam); the
\* confidence is the larger probability.
C5_ScamIffPositiveScore ==
    Predicted =>
        /\ (clf.label = "scam") <=> (clf.score > 0)
        /\ (clf.label = "real") <=> (clf.score <= 0)
        /\ clf.label = "scam" => clf.p_scam >= 1000 - clf.p_scam
        /\ clf.label = "real" => 1000 - clf.p_scam >= clf.p_scam
        /\ clf.confidence = Max(clf.p_scam, 1000 - clf.p_scam)

C5_Witness ==
    /\ Predicted /\ clf.score = 0 /\ clf.p_scam = 500
    /\ clf.label = "real" /\ clf.confidence = 500

\* the 200 answer of /upload for an image whose text holds the OCR placeholder
IsOcrWarning(r, q) ==
    /\ r.endpoint = "/upload" /\ r.status = 200
    /\ "warning" \in r.keys
    /\ r.keys \cap {"error", "classification", "confidence"} = {}
    /\ q.ext \in image_extensions
    /\ Contains(q.message.s, OcrPlaceholder)

\* C6 as stated: every response of /detect and /upload is a complete decision
\* or an explicit error.
C6_DecisionOrError ==
    (Answered /\ resp.endpoint \in {"/detect", "/upload"}) =>
        IsDecision(resp) \/ IsError(resp)

\* C6 amended: every response of /detect and /upload is a complete decision,
\* an explicit error, or the OCR-unavailable warning of /upload; the label
\* and the confidence are present together or not at all.
C6_DecisionErrorOrWarning ==
    (Answered /\ resp.endpoint \in {"/detect", "/upload"}) =>
        /\ IsDecision(resp) \/ IsError(resp) \/ IsOcrWarning(resp, req)
        /\ ("classification" \in resp.keys) <=> ("confidence" \in resp.keys)

C6_Witness == Answered /\ IsOcrWarning(resp, req) /\ ~IsDecision(resp) /\ ~IsError(resp)

\* C7: with a bundle that lacks the model or the vectorizer no entry point
\* decides, and each classification request ends in a model-unavailable error.
C7_RefusesWithoutBothHalves ==
    (Answered /\ ~BundleComplete /\ ClassificationRequest(req)) =>
        /\ ~IsDecision(resp)
        /\ ~resp.crashed
        /\ resp.error \in ModelUnavailableErrors

\* C8: the artifact is loaded once, during start-up; no request handler
\* assigns the shared model and vectorizer references or loads again.
C8_LoadedOnceAtStartup ==
    [][pc = "serving" =>
          /\ loads' = loads
          /\ <<api_model, api_vectorizer, file_model, file_vectorizer>>'
               = <<api_model, api_vectorizer, file_model, file_vectorizer>>]_vars

C10_NonTextIsClassified ==
    (/\ Answered /\ req.endpoint = "/detect" /\ req.kind = "message"
     /\ req.message.type # "str"
     /\ api_model # None /\ api_vectorizer # None) =>
        IsDecision(resp)

\* the columns of the feature vector that are not zero
Present(v) == { i \in DOMAIN v : v[i] # 0 }

ColumnOf(word) == CHOOSE i \in DOMAIN feature_names : feature_names[i] = word

AllZero(v) == \A i \in DOMAIN v : v[i] = 0

\* C11: the empty-string message gets a decision: an all-zero feature
\* vector, the default label of the model, no risk signal and no attribution.
C11_EmptyMessageIsDecided ==
    (/\ Answered /\ BundleComplete
     /\ req.kind \in {"message", "input", "interactive"}
     /\ req.message = PyStr("")) =>
        /\ IsDecision(resp)
        /\ clf.called /\ ~clf.raised
        /\ Len(clf.input_vector) = Len(feature_names) /\ AllZero(clf.input_vector)
        /\ resp.high_risk_signals = <<>>
        /\ resp.important_features = <<>>

\* C12: get_prediction returns at most 5 attributions, each a vocabulary term
\* with non-zero weight in the feature vector and importance = coefficient x
\* weight, no term twice, sorted by descending absolute importance; no present
\* term left out has a larger absolute importance than a returned one.
C12_TopAttributions ==
    Predicted =>
        LET f == clf.important_features
            v == clf.input_vector
            returned == { ColumnOf(f[k].word) : k \in DOMAIN f }
        IN  /\ Len(f) <= 5
            /\ Len(f) = IF Cardinality(Present(v)) < 5 THEN Cardinality(Present(v)) ELSE 5
            /\ \A k \in DOMAIN f :
                 \E i \in Present(v) : /\ f[k].word = feature_names[i]
                                       /\ f[k].importance = coefficients[i] * v[i]
            /\ \A j, k \in DOMAIN f : j < k =>
                 /\ f[j].word # f[k].word
                 /\ Abs(f[j].importance) >= Abs(f[k].importance)
            /\ \A i \in Present(v) \ returned : \A k \in DOMAIN f :
                 Abs(coefficients[i] * v[i]) <= Abs(f[k].importance)

C12_Witness ==
    /\ Predicted /\ Cardinality(Present(clf.input_vector)) > 5
    /\ Len(clf.important_features) = 5
    /\ clf.important_features[1].importance > 0
    /\ clf.important_features[2].importance < 0
    /\ Abs(clf.important_features[2].importance) > clf.important_features[5].importance

ScamTemplate ==
    "This message was classified as a scam primarily because it contains suspicious terms like: "
LegitTemplate ==
    "This message was classified as legitimate primarily because it contains trusted terms like: "

\* the keyword groups of the scam explanations, in their order
ScamGroups == <<
    [keywords |-> <<"registration fee", "registration", "fee", "fees", "payment", "pay">>,
     sentence |-> "Requesting upfront payment or registration fees is a common tactic in job and loan scams."],
    [keywords |-> <<"free", "guarantee", "guaranteed", "immediate", "urgent", "today", "risk-free">>,
     sentence |-> "Promises of guaranteed or instant approvals are often used in loan scams."],
    [keywords |-> <<"lottery", "prize", "won", "winner", "selected", "lucky">>,
     sentence |-> "Claims about winning prizes or being specially selected are classic scam techniques."],
    [keywords |-> <<"aadhar", "pan", "kyc", "bank details", "card details", "otp", "password", "verify">>,
     sentence |-> "Requesting identity documents or financial information via messages is risky."],
    [keywords |-> <<"no interview", "without interview", "work from home", "earn from home">>,
     sentence |-> "Job offers without proper interviews or promising easy work-from-home income are often scams."] >>

\* the sentences of the legitimate explanations
LegitSentences ==
    {"The message references official channels or verified services.",
     "The message mentions established banking institutions.",
     "The message mentions reputable companies."}

StartsWith(x, prefix) == Len(x) >= Len(prefix) /\ SubSeq(x, 1, Len(prefix)) = prefix

GroupOf(sentence) == CHOOSE g \in DOMAIN ScamGroups : ScamGroups[g].sentence = sentence

IsScamSentence(x) ==
    StartsWith(x, ScamTemplate) \/ \E g \in DOMAIN ScamGroups : x = ScamGroups[g].sentence

IsLegitSentence(x) == StartsWith(x, LegitTemplate) \/ x \in LegitSentences

HasPositive(fs) == \E k \in DOMAIN fs : fs[k].importance > 0
HasNegative(fs) == \E k \in DOMAIN fs : fs[k].importance < 0

DetectDecision == Answered /\ resp.endpoint = "/detect" /\ IsDecision(resp)

\* C13: when the final label is scam and some returned attribution is
\* positive, the explanations start with the template sentence naming the (at
\* most 5) scam-leaning terms, followed by the sentence of each of the five
\* keyword groups with a keyword in the lowercased message, once each and in
\* group order: 1 to 6 sentences, none repeated.
C13_ScamExplanations ==
    (DetectDecision /\ resp.classification = "scam" /\ HasPositive(clf.important_features)) =>
        LET ex == resp.explanations
            low == Lower(req.message.s)
            terms == WordsOf(SelectSeq(clf.important_features, LAMBDA f : f.importance > 0))
        IN  /\ "explanations" \in resp.keys
            /\ Len(ex) >= 1 /\ Len(ex) <= 6
            /\ Len(terms) <= 5
            /\ ex[1] = ScamTemplate \o JoinComma(terms)
            /\ \A k \in 2..Len(ex) : \E g \in DOMAIN ScamGroups : ex[k] = ScamGroups[g].sentence
            /\ \A g \in DOMAIN ScamGroups :
                 ContainsAny(low, ScamGroups[g].keywords)
                     <=> (\E k \in 2..Len(ex) : ex[k] = ScamGroups[g].sentence)
            /\ \A j, k \in 2..Len(ex) : j < k => GroupOf(ex[j]) < GroupOf(ex[k])
            /\ \A j, k \in DOMAIN ex : j # k => ex[j] # ex[k]

C13_Witness ==
    /\ DetectDecision /\ resp.classification = "scam" /\ clf.label = "real"
    /\ HasPositive(clf.important_features)
    /\ Len(resp.explanations) = 5
    /\ resp.explanations[5] = ScamGroups[5].sentence

\* C14: the explanation sentences agree with the final label: legitimate
\* sentences only when it is real and some returned attribution is negative,
\* scam sentences only when it is scam and some returned attribution is
\* positive, never both families, and no sentence at all when the final label
\* has no attribution of its sign.
C14_ExplanationsAgreeWithLabel ==
    DetectDecision =>
        LET ex == resp.explanations
            fs == clf.important_features
            SomeScam == \E k \in DOMAIN ex : IsScamSentence(ex[k])
            SomeLegit == \E k \in DOMAIN ex : IsLegitSentence(ex[k])
        IN  /\ \A k \in DOMAIN ex : IsScamSentence(ex[k]) \/ IsLegitSentence(ex[k])
            /\ SomeLegit => resp.classification = "real" /\ HasNegative(fs)
            /\ SomeScam => resp.classification = "scam" /\ HasPositive(fs)
            /\ ~(SomeScam /\ SomeLegit)
            /\ (resp.classification = "scam" /\ ~HasPositive(fs)) => ex = <<>>
            /\ (resp.classification = "real" /\ ~HasNegative(fs)) => ex = <<>>

C14_Witness ==
    /\ DetectDecision /\ clf.label = "scam" /\ resp.classification = "scam"
    /\ HasNegative(clf.important_features) /\ ~HasPositive(clf.important_features)
    /\ "explanations" \in resp.keys /\ resp.explanations = <<>>

\* C15: in every response each attribution record is a "Scam indicator"
\* exactly when its importance is greater than 0 and a "Legitimate indicator"
\* otherwise, its weight is the absolute value of the importance, never
\* negative, and the records keep the order of the attribution list.
C15_AttributionRecords ==
    (Predicted /\ IsDecision(resp)) =>
        LET fs == clf.important_features
            rs == resp.important_features
        IN  /\ Len(rs) = Len(fs)
            /\ ("important_features" \in resp.keys) <=> (fs # <<>>)
            /\ \A k \in DOMAIN rs :
                 /\ rs[k].term = fs[k].word
                 /\ rs[k].indicator_type \in {"Scam indicator", "Legitimate indicator"}
                 /\ (rs[k].indicator_type = "Scam indicator") <=> (fs[k].importance > 0)
                 /\ rs[k].weight = Abs(fs[k].importance)
                 /\ rs[k].weight >= 0

C15_Witness ==
    /\ Predicted /\ IsDecision(resp) /\ resp.endpoint = "/upload"
    /\ \E j, k \in DOMAIN resp.important_features :
         /\ j < k
         /\ clf.important_features[j].importance < 0
         /\ resp.important_features[j].indicator_type = "Legitimate indicator"
         /\ resp.important_features[j].weight > 0
         /\ clf.important_features[k].importance = 0
         /\ resp.important_features[k].indicator_type = "Legitimate indicator"

Normalized == program = "text" /\ pc \in {"normalized", "renormalized"}

DefaultOptions == norm.remove_stopwords /\ norm.lemmatize

\* C16: normalization is idempotent: with the default options and in every
\* resource configuration, preprocess_text applied to its own result returns
\* that result.
C16_Idempotent ==
    (program = "text" /\ pc = "renormalized" /\ DefaultOptions) =>
        /\ norm.twice.raised = ""
        /\ norm.twice.text = norm.once.text

\* C17: preprocess_text returns a string without raising for every input
\* and every combination of available resources; a value that is no string
\* gives the empty string; a missing stopword corpus is replaced by the
\* built-in stopword set.
C17_Total ==
    Normalized =>
        /\ norm.once.raised = ""
        /\ norm.input.type # "str" => norm.once.text = ""
        /\ norm.once.text = join(norm.once.tokens)
        /\ (norm.remove_stopwords /\ ~norm.lemmatize) =>
               \A k \in DOMAIN norm.once.tokens :
                   norm.once.tokens[k] \notin
                       (IF resources.stopwords THEN nltk_stopwords ELSE minimal_stopwords)
        /\ pc = "renormalized" => norm.twice.raised = ""

C17_Witness ==
    /\ Normalized
    /\ ~resources.punkt /\ ~resources.stopwords /\ ~resources.wordnet
    /\ norm.input = PyStr(Copyright \o " !? ")
    /\ norm.once.raised = "" /\ norm.once.text = ""

RECURSIVE SubsequenceFrom(_, _, _, _)
SubsequenceFrom(w, i, s, j) ==
    IF i > Len(w) THEN TRUE
    ELSE IF j > Len(s) THEN FALSE
    ELSE IF SubSeq(w, i, i) = SubSeq(s, j, j)
         THEN SubsequenceFrom(w, i + 1, s, j + 1)
         ELSE SubsequenceFrom(w, i, s, j + 1)

\* the characters of w occur in s, in their order
HasSubsequence(s, w) == SubsequenceFrom(w, 1, s, 1)

\* the lemma the configuration gives to a word
LemmaOf(w) == IF resources.wordnet THEN wordnet_lemmatize(w) ELSE simple_lemmatizer(w)

\* the words that can have the lemma t
Inflections(t) ==
    {t, t \o "s"}
    \cup { w \in DOMAIN wordnet_exceptions : wordnet_lemmatize(w) = t }
    \cup { DropLast(t, Len(noun_substitutions[r][2])) \o noun_substitutions[r][1] :
             r \in { q \in DOMAIN noun_substitutions : EndsWith(t, noun_substitutions[q][2]) } }

\* t is a word of the text s or the lemma of one
WordOrLemmaIn(t, s, Has(_, _)) ==
    \/ Has(s, t)
    \/ norm.lemmatize /\ \E w \in Inflections(t) : Has(s, w) /\ LemmaOf(w) = t

\* C18 as stated: each output token of preprocess_text is a substring of
\* the lowercased source or the lemma of a source word.
C18_TokensFromSource ==
    (Normalized /\ norm.input.type = "str") =>
        \A k \in DOMAIN norm.once.tokens :
            WordOrLemmaIn(norm.once.tokens[k], Lower(norm.input.s), Contains)

\* C18 amended: each output token of preprocess_text is, or is the lemma
\* of, a word whose characters occur in their order in the lowercased source
\* once URLs, e-mail addresses and phone numbers are removed and contractions
\* are expanded; for a source without apostrophe, in the lowercased source.
C18_TokensFromExpandedSource ==
    (Normalized /\ norm.input.type = "str") =>
        \A expanded \in {expanded_text(norm.input.s)}, lowered \in {Lower(norm.input.s)} :
            \A t \in { norm.once.tokens[k] : k \in DOMAIN norm.once.tokens } :
                /\ WordOrLemmaIn(t, expanded, HasSubsequence)
                /\ ~Contains(norm.input.s, "'") => WordOrLemmaIn(t, lowered, HasSubsequence)

C18_Witness ==
    /\ Normalized /\ norm.input = PyStr("Don't e-mail ") /\ norm.lemmatize
    /\ norm.once.tokens = <<"do", "not", "email">>
    /\ ~Contains(Lower(norm.input.s), "not")
    /\ ~Contains(Lower(norm.input.s), "email")

\* the vocabulary terms among the tokens of the normalized text
KnownTokens(text) ==
    { i \in DOMAIN feature_names :
        \E k \in DOMAIN analyze(text) : analyze(text)[k] = feature_names[i] }

\* C19: the feature vector has one column per vocabulary term for every
\* text; a column is non-zero only for a term that occurs in the normalized
\* text, so the empty text and a text of unknown terms give the all-zero
\* vector and no attribution.
C19_FixedDimension ==
    Predicted =>
        \A known \in {KnownTokens(clf.processed_text)} :
            /\ Len(clf.input_vector) = Len(feature_names)
            /\ Present(clf.input_vector) = known
            /\ known = {} => AllZero(clf.input_vector) /\ clf.important_features = <<>>

C19_Witness ==
    /\ Predicted /\ req.message.s = OovText /\ clf.processed_text # ""
    /\ Len(clf.input_vector) = 8 /\ AllZero(clf.input_vector)
    /\ clf.important_features = <<>>

WorkFromHomeSignal == high_risk_patterns[2].explanation
NoInterviewSignal == high_risk_patterns[3].explanation

HasSignal(signals, e) == \E k \in DOMAIN signals : signals[k] = e

\* C20 as stated: for an input containing Scenario D's text at least two
\* risk signals fire, the work-from-home one and the no-interview one, and
\* the final label is scam.
C20_ScenarioDIsScam ==
    (Predicted /\ IsDecision(resp) /\ Contains(req.message.s, ScenarioD)) =>
        /\ Len(resp.high_risk_signals) >= 2
        /\ HasSignal(resp.high_risk_signals, WorkFromHomeSignal)
        /\ HasSignal(resp.high_risk_signals, NoInterviewSignal)
        /\ resp.classification = "scam"

\* C20 amended: for an input containing Scenario D's text and none of the
\* legitimate-context words, at least two risk signals fire, the
\* work-from-home one and the no-interview one, and the final label is scam
\* unless the classifier says real with a confidence of 0.75 or more.
C20_ScenarioDSignals ==
    (/\ Predicted /\ IsDecision(resp) /\ Contains(req.message.s, ScenarioD)
     /\ ~ContainsAny(Lower(req.message.s), legitimate_context_words)) =>
        /\ Len(resp.high_risk_signals) >= 2
        /\ HasSignal(resp.high_risk_signals, WorkFromHomeSignal)
        /\ HasSignal(resp.high_risk_signals, NoInterviewSignal)
        /\ ~(clf.label = "real" /\ clf.confidence >= 750) => resp.classification = "scam"

C20_Witness ==
    /\ Predicted /\ IsDecision(resp) /\ req.message.s = ScenarioD
    /\ Len(resp.high_risk_signals) = 3
    /\ clf.label = "real" /\ clf.confidence < 750 /\ resp.classification = "scam"

\* the decision an entry point gives for a text when the request is the only
\* one the process ever handles
DecisionAlone(endpoint, text) ==
    LET risk_signals == has_high_risk_signals(text).risk_signals
        pred == get_prediction(TheModel, PyStr(text), TheVectorizer, bundle.outcomes[text])
    IN  IF endpoint = "/detect"
        THEN decision_detect(text, risk_signals, pred,
                             override_detect(risk_signals, pred.label, pred.confidence))
        ELSE decision_upload(risk_signals, pred,
                             override_upload(risk_signals, pred.label, pred.confidence))

Decided(w) == threads[w].pc = "done" /\ IsDecision(threads[w].resp)

C22_SignalsWithRealAreConfident ==
    (/\ Answered /\ IsDecision(resp)
     /\ resp.high_risk_signals # <<>>
     /\ resp.classification = "real")
    => resp.confidence >= 750

\* the CLI prints a real label with signals, at a confidence of exactly 0.75
C22_Witness ==
    /\ Answered /\ IsDecision(resp)
    /\ resp.endpoint = "cli"
    /\ resp.high_risk_signals # <<>>
    /\ resp.classification = "real"
    /\ resp.confidence = 750

FileMissing(r) == r.error = "[Errno 2] No such file or directory"

\* C23: two /upload requests handled concurrently in one process do not
\* interfere through the temporary file: a request reads back the bytes of
\* its own upload, classifies the text of its own document, and neither its
\* read nor its removal finds the file taken away by the other request
C23_UploadsDoNotInterfere ==
    program = "server" =>
        \A w \in Workers :
            threads[w].endpoint = "/upload" =>
                /\ threads[w].file_content \in {"", threads[w].upload}
                /\ threads[w].text # ""
                     => threads[w].text = get_document_text(threads[w].upload, threads[w].ext)
                /\ ~FileMissing(threads[w].resp)

\* what an entry point returns for a text with the loaded pair, when the
\* classifier computes o for it
Fusion(endpoint, text, o) ==
    LET risk_signals == has_high_risk_signals(text).risk_signals
        pred == get_prediction(TheModel, PyStr(text), TheVectorizer, o)
    IN  CASE endpoint = "/detect" ->
               decision_detect(text, risk_signals, pred,
                               override_detect(risk_signals, pred.label, pred.confidence))
          [] endpoint = "/upload" ->
               decision_upload(risk_signals, pred,
                               override_upload(risk_signals, pred.label, pred.confidence))
          [] endpoint = "cli" ->
               classify_cli(PyStr(text), o, TheModel, TheVectorizer, FALSE).resp

FusedFields(r) ==
    <<r.classification, r.confidence, r.high_risk_signals, r.important_features>>

\* C24: for the text and the classifier output of a decision that one entry
\* point returned, each of /detect, /upload and the CLI returns the same
\* classification, confidence, risk-signal list and attribution list
C24_SameFusion ==
    (Answered /\ IsDecision(resp)) =>
        \A endpoint \in {"/detect", "/upload", "cli"} :
            FusedFields(Fusion(endpoint, req.message.s,
                               [score |-> clf.score, p_scam |-> clf.p_scam]))
            = FusedFields(resp)

\* /upload returned a decision with signals and attributions in which it
\* overrode the classifier
C24_Witness ==
    /\ Answered /\ IsDecision(resp)
    /\ resp.endpoint = "/upload"
    /\ resp.high_risk_signals # <<>>
    /\ resp.important_features # <<>>
    /\ clf.label = "real" /\ resp.classification = "scam"

\* C25: among the returned attributions, two terms of equal |importance|
\* are in ascending order of their vocabulary column, and a term left out
\* at the cut with the |importance| of a returned term has a higher column
\* than that term
C25_TiesInVocabularyOrder ==
    Predicted =>
        LET f == clf.important_features
            v == clf.input_vector
            returned == { ColumnOf(f[k].word) : k \in DOMAIN f }
        IN  /\ \A j, k \in DOMAIN f :
                 (j < k /\ Abs(f[j].importance) = Abs(f[k].importance))
                 => ColumnOf(f[j].word) < ColumnOf(f[k].word)
            /\ \A i \in Present(v) \ returned : \A k \in DOMAIN f :
                 Abs(coefficients[i] * v[i]) = Abs(f[k].importance)
                 => ColumnOf(f[k].word) < i

\* two pairs of returned terms tie, of opposite signs, and the fifth
\* returned term ties with a term that is left out
C25_Witness ==
    /\ Predicted
    /\ Len(clf.important_features) = 5
    /\ LET f == clf.important_features
           v == clf.input_vector
           returned == { ColumnOf(f[k].word) : k \in DOMAIN f }
       IN  /\ Abs(f[1].importance) = Abs(f[2].importance)
           /\ f[1].importance > 0 /\ f[2].importance < 0
           /\ Abs(f[3].importance) = Abs(f[4].importance)
           /\ \E i \in Present(v) \ returned :
                Abs(coefficients[i] * v[i]) = Abs(f[5].importance)

\* the place of a contraction in the order of substitution
OrderOf(contraction) ==
    CHOOSE k \in DOMAIN contraction_patterns : contraction_patterns[k][1] = contraction

\* the entries of the table whose contraction stands at position i of s
ContractionsAt(s, i) ==
    { e \in { contraction_patterns[k] : k \in DOMAIN contraction_patterns } :
        /\ i + Len(e[1]) - 1 <= Len(s)
        /\ SubSeq(s, i, i + Len(e[1]) - 1) = e[1] }

RECURSIVE ExpandedOnce(_, _)
\* s from position i on with every contraction of the table that stands in
\* it replaced once by its expansion, in one pass from left to right that
\* never looks at the text it has written
ExpandedOnce(s, i) ==
    IF i > Len(s) THEN ""
    ELSE IF ContractionsAt(s, i) = {} THEN Chr(s, i) \o ExpandedOnce(s, i + 1)
    ELSE LET e == CHOOSE x \in ContractionsAt(s, i) :
                      \A y \in ContractionsAt(s, i) : Len(y[1]) <= Len(x[1])
         IN  e[2] \o ExpandedOnce(s, i + Len(e[1]))

WordsNormalized == program = "words" /\ pc = "normalized"

\* C26: the substitutions are made with "won't" and "can't" before "n't"
\* and "n't" before "'t", and the text after them is the text before them
\* with each contraction replaced once by its expansion: "won't" gives
\* "will not", not "wo not", and no substitution matches text that an
\* earlier substitution wrote
C26_EachContractionOnce ==
    /\ OrderOf("won't") < OrderOf("n't")
    /\ OrderOf("can't") < OrderOf("n't")
    /\ OrderOf("n't") < OrderOf("'t")
    /\ WordsNormalized =>
           /\ expansion.after = ExpandedOnce(expansion.before, 1)
           /\ ~Contains(expansion.after, "wo not")

\* "won't's" gives "will not is": two contractions side by side, each
\* expanded once
C26_Witness ==
    /\ WordsNormalized
    /\ expansion.before = "won't's"
    /\ expansion.after = "will not is"


\* the messages extract_text_from_image and extract_text_with_api produce
\* when no text was extracted
OcrMessages ==
    { fallback_text(image) : image \in Images }
    \cup { answer.text : answer \in { a \in ApiAnswers : a.kind # "parsed" } }
    \cup { "OCR API is disabled", "Image file not found" }

\* C27: an entry is written to the OCR cache only by a call whose API
\* extraction succeeded with non-empty text, so every cached text is non-empty,
\* is no fallback or error message, and is a text an earlier successful API
\* extraction returned for an image of the same hash; a call that fell back or
\* was served from the cache leaves the entry as it was.
C27_CachedTextsWereExtracted ==
    program = "ocr" =>
        /\ \A h \in Hashes :
             ocr.cache[h].exists =>
                 /\ ocr.cache[h].text # ""
                 /\ ocr.cache[h].text \notin OcrMessages
                 /\ <<h, ocr.cache[h].text>> \in ocr.extractions
        /\ ocr.calls > 0 =>
             \/ ocr.cache[ocr.last.image_hash] = ocr.last.entry
             \/ /\ ocr.last.source = "api"
                /\ ocr.last.returned # ""
                /\ ocr.cache[ocr.last.image_hash] =
                       [exists |-> TRUE, text |-> ocr.last.returned, timestamp |-> ocr.last.now]

\* an expired entry survives a call whose API request failed
C27_Witness ==
    /\ program = "ocr"
    /\ ocr.last.source = "fallback"
    /\ ocr.last.requested
    /\ ocr.last.entry.exists
    /\ ocr.cache[ocr.last.image_hash] = ocr.last.entry

\* the entry exists and is younger than the TTL
Younger(entry, now, cache_ttl) == entry.exists /\ now - entry.timestamp < cache_ttl

\* the file of the last call's image does not exist
ImageMissing(call) == \E image \in Images : image.path = call.image /\ ~image.exists

\* C28: a call for an image whose cache entry is younger than the TTL returns
\* the cached text, counts one cache hit and leaves api_calls unchanged; an
\* entry that is missing or as old as the TTL is not returned, no hit is
\* counted and extract_text_with_api is called, which counts one API call
\* unless the API is disabled, the image file is missing or preparing the
\* request failed.
C28_FreshServedElseApi ==
    (program = "ocr" /\ ocr.calls > 0) =>
        LET call == ocr.last
        IN  IF Younger(call.entry, call.now, ocr.cache_ttl)
            THEN /\ call.source = "cache"
                 /\ call.returned = call.entry.text
                 /\ ocr.metrics.cache_hits = call.metrics.cache_hits + 1
                 /\ ocr.metrics.api_calls = call.metrics.api_calls
                 /\ ~call.api_tried
            ELSE /\ call.source \in {"api", "fallback"}
                 /\ call.api_tried
                 /\ ocr.metrics.cache_hits = call.metrics.cache_hits
                 /\ IF call.requested
                    THEN ocr.metrics.api_calls = call.metrics.api_calls + 1
                    ELSE /\ ocr.metrics.api_calls = call.metrics.api_calls
                         /\ \/ ocr.api_disabled
                            \/ ImageMissing(call)
                            \/ ocr.metrics.errors = call.metrics.errors + 1

\* a day-old entry is served under a TTL of two days to an image of the same
\* bytes under another path
C28_Witness ==
    /\ program = "ocr"
    /\ ocr.cache_ttl = 2
    /\ ocr.last.image = "b.png"
    /\ ocr.last.source = "cache"
    /\ ocr.last.now - ocr.last.entry.timestamp = 1
    /\ ocr.metrics.cache_hits = 1
    /\ ocr.metrics.api_calls = 1

\* C29: the text preprocess_text returns is a single-space join of non-empty
\* tokens in every resource configuration and for every option setting: no
\* token is empty, and the text holds no two consecutive spaces and no
\* leading or trailing space.
C29_SingleSpaceJoin ==
    (WordsNormalized /\ norm.once.raised = "") =>
        /\ \A k \in DOMAIN norm.once.tokens : norm.once.tokens[k] # ""
        /\ ~Contains(norm.once.text, "  ")
        /\ ~StartsWith(norm.once.text, " ")
        /\ ~EndsWith(norm.once.text, " ")

\* the last call was a load_model that returned (None, None)
LoadFailed ==
    /\ program = "logistic"
    /\ lm.last.op = "load_model"
    /\ lm.last.returned = <<None, None>>

\* C30: load_model leaves the instance unchanged on failure: whenever it
\* returns (None, None), self.model and self.vectorizer have the values they
\* had before the call, so a pair that was usable before the call is usable
\* after it and the instance holds no model without a vectorizer.
C30_FailedLoadChangesNothing ==
    LoadFailed =>
        /\ lm.model = lm.last.model
        /\ lm.vectorizer = lm.last.vectorizer
        /\ (lm.last.model # None /\ lm.last.vectorizer # None) =>
               (lm.model # None /\ lm.vectorizer # None)
        /\ lm.model # None => lm.vectorizer # None

=============================================================================
